---- MODULE Spec2Model ----
(***************************************************************************)
(* Model of the time-series health analytics and risk engine:              *)
(*   - FIPDowntimePredictor (services/predictor.py): health scoring, risk  *)
(*     bucketing, downtime/maintenance detection, per-entity monitoring;   *)
(*   - AlertService (services/alert_service.py): one generate_alerts pass; *)
(*   - PrometheusHistoricalAnalyzer (services/historical_analyzer.py):     *)
(*     range queries and the per-entity feature loop;                      *)
(*   - DataPipeline (services/data_pipeline.py): the background worker.    *)
(*                                                                         *)
(* Numbers.  Metric values are integers in fixed units: success rates and  *)
(* error rate in percent, response time in tenths of a second, status in   *)
(* tenths.  A frame cell is a record [nan, v]; every comparison with a NaN *)
(* cell is false, as in IEEE arithmetic.  A per-metric score is the exact  *)
(* fraction num/den, and a health score is kept in units of 1/Scale of a   *)
(* point, Scale being the least common denominator of the interpolations,  *)
(* so that the boundaries 30, 60, 85 and 100 are hit exactly.              *)
(***************************************************************************)
EXTENDS Integers, Sequences, FiniteSets, TLC

VARIABLES
    \* ---- FIPDowntimePredictor: one scoring / pattern pass ----
    hpc,        \* position of the pass: "input", "scored", "detected"
    df,         \* the frame handed to calculate_health_score
    scored,     \* the frame calculate_health_score returns
    patterns,   \* the dictionary detect_patterns returns
    now,        \* datetime.now() read by predict_next_24h_risks
    predictions,\* the dictionary predict_next_24h_risks returns
    slot_scores,\* the risk_score computed for each of the 24 slots
    \* ---- AlertService: one generate_alerts pass ----
    apc,            \* "idle", "running" (inside the loop), "done" (returned)
    current_metrics,\* argument: entity -> its current metrics
    historical_data,\* argument: metric -> the rows of its frame
    next_fip,       \* position of the loop in current_metrics.items()
    alerts,         \* the local list `alerts`; the return value once done
    generated,      \* every alert _create_alert built in this pass, in order
    alert_error,    \* the entity whose checks raised (logged), or "none"
    \* ---- one call of calculate_features or of monitor_all_fips ----
    bpc,            \* "idle", "running" (inside the loop), "done" (returned)
    batch_op,       \* which of the two loops this call is
    batch_data,     \* the data of the entities: metric frames, or entity -> frame
    remaining,      \* the entities still to be iterated, in iteration order
    batch_results,  \* fip_features / all_results: entity -> its entry
    critical_alerts,\* the list monitor_all_fips builds next to all_results
    \* ---- one call of extract_historical_data ----
    xpc,            \* "idle", "running", "done"
    next_query,     \* position of the loop in metric_queries
    responses,      \* what each range query met, in query order
    extracted,      \* historical_data: metric -> its frame
    \* ---- DataPipeline ----
    pipeline_running,     \* the flag
    pipeline_thread,      \* the thread of the latest start, 0 for None
    processed_data_queue, \* the stored results
    wpc,            \* worker thread -> its position in _pipeline_worker
    cpc,            \* calling thread -> its position in start/stop_pipeline
    join_target,    \* calling thread -> the thread it is joining, 0 for none
    stored,         \* how many results have been stored so far
    \* ---- one call of _calculate_trend_features, one metric ----
    tpc,            \* "idle", "input", "done"
    trend_values,   \* df['value'] of the metric, missing samples included
    trend_features, \* trend_features[metric_name], {} when it is not set
    \* ---- one call of _calculate_anomaly_features, one metric ----
    zpc,             \* "idle", "input", "done"
    anomaly_values,  \* df['value'] of the metric, missing samples included
    anomaly_features, \* anomaly_features[metric_name], {} when it is not set
    \* ---- the clock of one _pipeline_worker while the pipeline runs ----
    kpc,             \* "idle", "cycle", "predict", "sleep"
    clock,           \* time within the hour, in units of 30 seconds
    elapsed          \* units since the last stored prediction (or the start)

healthVars == <<hpc, df, scored, patterns, now, predictions, slot_scores>>

alertVars ==
    <<apc, current_metrics, historical_data, next_fip, alerts, generated, alert_error>>

batchVars == <<bpc, batch_op, batch_data, remaining, batch_results, critical_alerts>>

extractVars == <<xpc, next_query, responses, extracted>>

pipelineVars ==
    <<pipeline_running, pipeline_thread, processed_data_queue, wpc, cpc,
      join_target, stored>>

trendVars == <<tpc, trend_values, trend_features>>

anomalyVars == <<zpc, anomaly_values, anomaly_features>>

scheduleVars == <<kpc, clock, elapsed>>

vars ==
    <<healthVars, alertVars, batchVars, extractVars, pipelineVars,
      trendVars, anomalyVars, scheduleVars>>

otherThanHealth ==
    <<alertVars, batchVars, extractVars, pipelineVars, trendVars,
      anomalyVars, scheduleVars>>

otherThanAlerts ==
    <<healthVars, batchVars, extractVars, pipelineVars, trendVars,
      anomalyVars, scheduleVars>>

otherThanBatch ==
    <<healthVars, alertVars, extractVars, pipelineVars, trendVars,
      anomalyVars, scheduleVars>>

otherThanExtract ==
    <<healthVars, alertVars, batchVars, pipelineVars, trendVars,
      anomalyVars, scheduleVars>>

otherThanPipeline ==
    <<healthVars, alertVars, batchVars, extractVars, trendVars,
      anomalyVars, scheduleVars>>

otherThanTrend ==
    <<healthVars, alertVars, batchVars, extractVars, pipelineVars,
      anomalyVars, scheduleVars>>

otherThanAnomaly ==
    <<healthVars, alertVars, batchVars, extractVars, pipelineVars,
      trendVars, scheduleVars>>

otherThanSchedule ==
    <<healthVars, alertVars, batchVars, extractVars, pipelineVars,
      trendVars, anomalyVars>>

(***************************************************************************)
(* FIPDowntimePredictor.__init__: the metrics configuration.               *)
(***************************************************************************)
MetricOrder ==
    <<"consent_success_rate", "data_fetch_success_rate", "response_time",
      "error_rate", "status">>

Metrics == {MetricOrder[i] : i \in 1..Len(MetricOrder)}

\* weight in hundredths; response_time in tenths of a second; status in tenths
fip_metrics_config ==
    [consent_success_rate |->
        [threshold_critical |-> 70, threshold_warning |-> 85, weight |-> 25, invert |-> FALSE],
     data_fetch_success_rate |->
        [threshold_critical |-> 75, threshold_warning |-> 90, weight |-> 25, invert |-> FALSE],
     response_time |->
        [threshold_critical |-> 50, threshold_warning |-> 30, weight |-> 20, invert |-> TRUE],
     error_rate |->
        [threshold_critical |-> 10, threshold_warning |-> 5, weight |-> 15, invert |-> TRUE],
     status |->
        [threshold_critical |-> 5, threshold_warning |-> 8, weight |-> 15, invert |-> FALSE]]

(***************************************************************************)
(* Frame cells and IEEE comparisons.                                       *)
(***************************************************************************)
Num(x) == [nan |-> FALSE, v |-> x]

NaN == [nan |-> TRUE, v |-> 0]

Geq(cell, t) == ~cell.nan /\ cell.v >= t

Leq(cell, t) == ~cell.nan /\ cell.v <= t

(***************************************************************************)
(* Per-metric score, an exact fraction [num, den] in [0,1].                *)
(***************************************************************************)
Den(m) ==
    LET c == fip_metrics_config[m]
    IN  IF c.invert THEN c.threshold_critical - c.threshold_warning
                    ELSE c.threshold_warning - c.threshold_critical

\* fault model: an inverted metric scored as if higher were better
InvertedScoreNotMirrored(m, cell) ==
    LET c == fip_metrics_config[m]
    IN  IF Geq(cell, c.threshold_warning) THEN Den(m)
        ELSE IF Geq(cell, c.threshold_critical) THEN cell.v - c.threshold_critical
        ELSE 0

\* np.where(v <= warning, 1.0, np.where(v <= critical, 1 - (v - warning)/(critical - warning), 0.0))
InvertedScore(m, cell) ==
    LET c == fip_metrics_config[m]
    IN  IF Leq(cell, c.threshold_warning) THEN Den(m)
        ELSE IF Leq(cell, c.threshold_critical)
             THEN Den(m) - (cell.v - c.threshold_warning)
             ELSE 0

\* np.where(v >= warning, 1.0, np.where(v >= critical, (v - critical)/(warning - critical), 0.0))
DirectScore(m, cell) ==
    LET c == fip_metrics_config[m]
    IN  IF Geq(cell, c.threshold_warning) THEN Den(m)
        ELSE IF Geq(cell, c.threshold_critical)
             THEN cell.v - c.threshold_critical
             ELSE 0

\* numerator of the metric's score over Den(m)
MetricScore(m, cell) ==
    IF fip_metrics_config[m].invert THEN InvertedScore(m, cell)
                                    ELSE DirectScore(m, cell)

\* the interpolation with neither saturation branch (used as a fault model)
RawScore(m, cell) ==
    LET c == fip_metrics_config[m]
    IN  IF cell.nan THEN 0
        ELSE IF c.invert THEN Den(m) - (cell.v - c.threshold_warning)
                         ELSE cell.v - c.threshold_critical

\* least common denominator of the five interpolations
Scale ==
    CHOOSE s \in 1..1000 :
        /\ \A m \in Metrics : s % Den(m) = 0
        /\ \A t \in 1..(s - 1) : \E m \in Metrics : t % Den(m) # 0

Points(p) == p * Scale

Clip(x, lo, hi) == IF x < lo THEN lo ELSE IF x > hi THEN hi ELSE x

RECURSIVE WeightedSum(_, _, _)
\* df['health_score'] += metric_score * weight, over the configured metrics
\* that are columns of the frame, in configuration order; in units of 1/Scale
WeightedSum(cols, vals, i) ==
    IF i > Len(MetricOrder) THEN 0
    ELSE LET m == MetricOrder[i]
             term == IF m \in cols
                     THEN fip_metrics_config[m].weight * MetricScore(m, vals[m])
                          * (Scale \div Den(m))
                     ELSE 0
         IN  term + WeightedSum(cols, vals, i + 1)

RECURSIVE RawWeightedSum(_, _, _)
RawWeightedSum(cols, vals, i) ==
    IF i > Len(MetricOrder) THEN 0
    ELSE LET m == MetricOrder[i]
             term == IF m \in cols
                     THEN fip_metrics_config[m].weight * RawScore(m, vals[m])
                          * (Scale \div Den(m))
                     ELSE 0
         IN  term + RawWeightedSum(cols, vals, i + 1)

\* fault model: the interpolation is not saturated and the sum is not clipped
HealthScoreUnclamped(cols, vals) == RawWeightedSum(cols, vals, 1)

\* np.clip(df['health_score'] * 100, 0, 100), in units of 1/Scale
HealthScore(cols, vals) == Clip(WeightedSum(cols, vals, 1), 0, Points(100))

RECURSIVE RiskFactorsFrom(_, _, _)
\* risk_factors: the metrics scoring below 0.5, in configuration order
RiskFactorsFrom(cols, vals, i) ==
    IF i > Len(MetricOrder) THEN << >>
    ELSE LET m == MetricOrder[i]
             rest == RiskFactorsFrom(cols, vals, i + 1)
         IN  IF m \in cols /\ 2 * MetricScore(m, vals[m]) < Den(m)
             THEN <<m>> \o rest ELSE rest

RiskFactors(cols, vals) == RiskFactorsFrom(cols, vals, 1)

\* pd.cut(health_score, bins=[0,30,60,85,100], labels=[...], include_lowest=True):
\* right-closed buckets [0,30] (30,60] (60,85] (85,100]
RiskLevel(hs) ==
    IF hs < 0 \/ hs > Points(100) THEN "NaN"
    ELSE IF hs <= Points(30) THEN "CRITICAL"
    ELSE IF hs <= Points(60) THEN "HIGH"
    ELSE IF hs <= Points(85) THEN "MEDIUM"
    ELSE "LOW"

(***************************************************************************)
(* Timestamps are quarter hours counted from a Monday 00:00.               *)
(***************************************************************************)
HourOf(ts) == (ts \div 4) % 24

DayOfWeek(ts) == (ts \div 96) % 7

IsWeekend(ts) == DayOfWeek(ts) \in {5, 6}

\* df['hour'].between(9, 17)
IsBusinessHours(ts) == HourOf(ts) >= 9 /\ HourOf(ts) <= 17

\* one row of the frame calculate_health_score returns
ScoreRow(cols, row) ==
    LET hs == HealthScore(cols, row.vals)
    IN  [timestamp |-> row.timestamp,
         vals |-> row.vals,
         health_score |-> hs,
         risk_factors |-> RiskFactors(cols, row.vals),
         risk_level |-> RiskLevel(hs),
         hour |-> HourOf(row.timestamp),
         day_of_week |-> DayOfWeek(row.timestamp),
         is_weekend |-> IsWeekend(row.timestamp),
         is_business_hours |-> IsBusinessHours(row.timestamp)]


(***************************************************************************)
(* FIPDowntimePredictor.calculate_health_score: works on df.copy() and     *)
(* returns the copy with the score, risk and time columns added.           *)
(***************************************************************************)
ScoreColumns ==
    {"health_score", "risk_factors", "risk_level", "hour", "day_of_week",
     "is_weekend", "is_business_hours"}

calculate_health_score(frame) ==
    [columns |-> frame.columns \cup ScoreColumns,
     rows |-> [i \in 1..Len(frame.rows) |->
                  ScoreRow(frame.columns \cap Metrics, frame.rows[i])]]

(***************************************************************************)
(* FIPDowntimePredictor.detect_patterns.                                   *)
(***************************************************************************)
\* downtime_mask = df['health_score'] < 30
IsDowntime(rows, i) == rows[i].health_score < Points(30)

\* fault model: the group id does not advance where the mask changes, so all
\* down rows fall into one group
DowntimeGroupNotAdvanced(rows, i) == 1

\* (downtime_mask != downtime_mask.shift()).cumsum()
DowntimeGroup(rows, i) ==
    Cardinality({k \in 1..i : k = 1 \/ IsDowntime(rows, k) # IsDowntime(rows, k - 1)})

\* the rows of df[downtime_mask] that carry group id g
GroupRows(rows, g) ==
    {i \in 1..Len(rows) : IsDowntime(rows, i) /\ DowntimeGroup(rows, i) = g}

SetMin(S) == CHOOSE x \in S : \A y \in S : x <= y

SetMax(S) == CHOOSE x \in S : \A y \in S : x >= y

\* fault model: both conditions required instead of either
IsMaintenanceBoth(rows, G) ==
    /\ Cardinality({i \in G : rows[i].is_business_hours}) = 0
    /\ Cardinality({i \in G : rows[i].is_weekend}) > 0

\* is_business_hours.sum() == 0 or is_weekend.sum() > 0
IsMaintenance(rows, G) ==
    \/ Cardinality({i \in G : rows[i].is_business_hours}) = 0
    \/ Cardinality({i \in G : rows[i].is_weekend}) > 0

\* risk_factors.iloc[0].rstrip(',').split(',') : an empty string splits to ['']
AffectedMetrics(rf) == IF rf = << >> THEN <<"">> ELSE rf

\* the event built for one group; first/last are the group's row positions,
\* kept beside the event's own fields to relate it to the frame
Event(rows, G) ==
    LET start_time == SetMin({rows[i].timestamp : i \in G})
        end_time == SetMax({rows[i].timestamp : i \in G})
    IN  [start_time |-> start_time,
         end_time |-> end_time,
         duration_minutes |-> (end_time - start_time) * 15,
         min_health_score |-> SetMin({rows[i].health_score : i \in G}),
         affected_metrics |-> AffectedMetrics(rows[SetMin(G)].risk_factors),
         is_maintenance |-> IsMaintenance(rows, G),
         first |-> SetMin(G),
         last |-> SetMax(G)]

\* minimum number of samples of a reported group (len(group_data) >= 3)
MinGroupLen == 3

RECURSIVE EventsFrom(_, _, _)
\* the events of the groups g, g+1, ... whose maintenance flag is `maint`
EventsFrom(rows, g, maint) ==
    IF g > Len(rows) THEN << >>
    ELSE LET G == GroupRows(rows, g)
             rest == EventsFrom(rows, g + 1, maint)
         IN  IF Cardinality(G) >= MinGroupLen /\ IsMaintenance(rows, G) = maint
             THEN <<Event(rows, G)>> \o rest
             ELSE rest

\* a mean of booleans or a mean difference, as an exact fraction; nan when
\* it is taken over no element
Frac(n, d) == [nan |-> d = 0, num |-> IF d = 0 THEN 0 ELSE n, den |-> d]

\* hourly_downtime[hourly_downtime > 0.1].index over df.groupby('hour')
HighRiskHours(rows) ==
    {h \in {rows[i].hour : i \in 1..Len(rows)} :
        10 * Cardinality({i \in 1..Len(rows) : rows[i].hour = h /\ IsDowntime(rows, i)})
          > Cardinality({i \in 1..Len(rows) : rows[i].hour = h})}

\* daily_downtime[daily_downtime > 0.1].index over df.groupby('day_of_week')
HighRiskDays(rows) ==
    {d \in {rows[i].day_of_week : i \in 1..Len(rows)} :
        10 * Cardinality({i \in 1..Len(rows) : rows[i].day_of_week = d /\ IsDowntime(rows, i)})
          > Cardinality({i \in 1..Len(rows) : rows[i].day_of_week = d})}

\* df[df['is_weekend']]['is_downtime'].mean()
WeekendRisk(rows) ==
    Frac(Cardinality({i \in 1..Len(rows) : rows[i].is_weekend /\ IsDowntime(rows, i)}),
         Cardinality({i \in 1..Len(rows) : rows[i].is_weekend}))

\* df[df['is_business_hours']]['is_downtime'].mean()
BusinessHoursRisk(rows) ==
    Frac(Cardinality({i \in 1..Len(rows) : rows[i].is_business_hours /\ IsDowntime(rows, i)}),
         Cardinality({i \in 1..Len(rows) : rows[i].is_business_hours}))

\* df.tail(288)
TailLen == 288

TailFirst(rows) == IF Len(rows) > TailLen THEN Len(rows) - TailLen + 1 ELSE 1

\* patterns['risk_trends'] (health scores in units of 1/Scale)
RiskTrends(rows) ==
    LET n == Len(rows)
        f == TailFirst(rows)
    IN  [current_health_score |-> rows[n].health_score,
         \* diff().mean(): the mean of the n-f successive differences
         health_trend_24h |-> Frac(rows[n].health_score - rows[f].health_score, n - f),
         critical_incidents_24h |-> Cardinality({i \in f..n : IsDowntime(rows, i)})]

detect_patterns(rows) ==
    [downtime_events |-> EventsFrom(rows, 1, FALSE),
     maintenance_windows |-> EventsFrom(rows, 1, TRUE),
     recurring_patterns |->
        [high_risk_hours |-> HighRiskHours(rows),
         high_risk_days |-> HighRiskDays(rows),
         weekend_risk |-> WeekendRisk(rows),
         business_hours_risk |-> BusinessHoursRisk(rows)],
     risk_trends |-> RiskTrends(rows)]

\* detect_patterns writes two columns into the frame it was handed
PatternColumns == {"is_downtime", "downtime_group"}

MarkDowntime(frame) ==
    [columns |-> frame.columns \cup PatternColumns,
     rows |-> [i \in 1..Len(frame.rows) |->
                  frame.rows[i] @@ [is_downtime |-> IsDowntime(frame.rows, i),
                                    downtime_group |-> DowntimeGroup(frame.rows, i)]]]

(***************************************************************************)
(* FIPDowntimePredictor.predict_next_24h_risks.  A risk score is an exact  *)
(* fraction num/den or NaN.  The comparison of a score with 0.4 is the     *)
(* same in binary floating point and in exact arithmetic for every sum     *)
(* the function can form.                                                  *)
(***************************************************************************)
\* the slots of the forecast: hour_offset in range(24)
SlotOffsets == 0..23

\* prediction_time.hour and prediction_time.weekday() of now + hour_offset
SlotHour(t, k) == (t.hour + k) % 24

SlotDay(t, k) == (t.day + (t.hour + k) \div 24) % 7

\* the trend step, in tenths: +0.2 when health_trend < -1, -0.1 when > 1;
\* a NaN trend compares false both times
TrendImpact(trend) ==
    IF ~trend.nan /\ trend.num < (-1) * Scale * trend.den THEN 2
    ELSE IF ~trend.nan /\ trend.num > Scale * trend.den THEN -1
    ELSE 0

\* the current health step, in tenths: +0.3 under 50, +0.1 under 70
HealthImpact(current_health) ==
    IF current_health < 50 * Scale THEN 3
    ELSE IF current_health < 70 * Scale THEN 1
    ELSE 0

\* fault model: the weekend term adds the share of weekend samples that were
\* not down
WeekendTermOfUp(weekend_risk) ==
    [nan |-> weekend_risk.nan,
     num |-> IF weekend_risk.nan THEN 0 ELSE weekend_risk.den - weekend_risk.num,
     den |-> IF weekend_risk.nan THEN 1 ELSE 2 * weekend_risk.den]

\* patterns['recurring_patterns']['weekend_risk'] * 0.5
WeekendTerm(weekend_risk) ==
    [nan |-> weekend_risk.nan,
     num |-> IF weekend_risk.nan THEN 0 ELSE weekend_risk.num,
     den |-> IF weekend_risk.nan THEN 1 ELSE 2 * weekend_risk.den]

\* min(base_risk, 1.0): Python's min returns its first argument unless the
\* second is smaller, so a NaN base_risk comes back as NaN
MinWithOne(base_risk) ==
    IF ~base_risk.nan /\ base_risk.den < base_risk.num
    THEN [nan |-> FALSE, num |-> base_risk.den, den |-> base_risk.den]
    ELSE base_risk

\* risk_score of the slot with this hour and weekday
SlotRisk(p, hour, day_of_week) ==
    LET rp == p.recurring_patterns
        is_weekend == day_of_week \in {5, 6}
        w == IF is_weekend THEN WeekendTerm(rp.weekend_risk)
             ELSE [nan |-> FALSE, num |-> 0, den |-> 1]
        tenths == 1
                  + (IF hour \in rp.high_risk_hours THEN 3 ELSE 0)
                  + (IF day_of_week \in rp.high_risk_days THEN 2 ELSE 0)
                  + TrendImpact(p.risk_trends.health_trend_24h)
                  + HealthImpact(p.risk_trends.current_health_score)
    IN  MinWithOne([nan |-> w.nan,
                    num |-> IF w.nan THEN 0 ELSE tenths * w.den + 10 * w.num,
                    den |-> IF w.nan THEN 1 ELSE 10 * w.den])

\* fault model: a slot scoring exactly 0.4 is reported too
IsHighRiskInclusive(score) == ~score.nan /\ 10 * score.num >= 4 * score.den

\* risk_score > 0.4 (false for NaN)
IsHighRisk(score) == ~score.nan /\ 10 * score.num > 4 * score.den

\* the four entries of 'factors'; an entry that does not apply is None
Factors(p, hour, day_of_week) ==
    LET rp == p.recurring_patterns
        wr == rp.weekend_risk
        trend == p.risk_trends.health_trend_24h
    IN  <<IF hour \in rp.high_risk_hours THEN "Historical hour pattern" ELSE "None",
          IF day_of_week \in {5, 6} /\ ~wr.nan /\ 10 * wr.num > wr.den
            THEN "Weekend pattern" ELSE "None",
          IF ~trend.nan /\ trend.num < (-1) * Scale * trend.den
            THEN "Declining health trend" ELSE "None",
          IF p.risk_trends.current_health_score < 70 * Scale
            THEN "Current low health score" ELSE "None">>

\* the entry appended to high_risk_periods for slot k (risk_level, which
\* compares the float score with 0.6, is left out)
RiskWindow(p, t, k) ==
    [time |-> k,
     hour |-> SlotHour(t, k),
     risk_score |-> SlotRisk(p, SlotHour(t, k), SlotDay(t, k)),
     factors |-> Factors(p, SlotHour(t, k), SlotDay(t, k))]

RECURSIVE HighRiskPeriods(_, _, _)
\* the windows of the slots k, k+1, ..., 23, in slot order
HighRiskPeriods(p, t, k) ==
    IF k > 23 THEN << >>
    ELSE IF IsHighRisk(SlotRisk(p, SlotHour(t, k), SlotDay(t, k)))
         THEN <<RiskWindow(p, t, k)>> \o HighRiskPeriods(p, t, k + 1)
         ELSE HighRiskPeriods(p, t, k + 1)

RECURSIVE ScoreSum(_, _, _)
\* sum of the risk scores of windows[i..], in units of 1/den
ScoreSum(windows, i, den) ==
    IF i > Len(windows) THEN 0
    ELSE (windows[i].risk_score.num * den) \div windows[i].risk_score.den
           + ScoreSum(windows, i + 1, den)

\* overall_risk_score: 0 without windows, else the mean of their scores
OverallRisk(p, windows) ==
    LET wr == p.recurring_patterns.weekend_risk
        den == IF wr.nan THEN 10 ELSE 10 * 2 * wr.den
    IN  IF windows = << >> THEN [nan |-> FALSE, num |-> 0, den |-> 1]
        ELSE [nan |-> FALSE, num |-> ScoreSum(windows, 1, den),
              den |-> den * Len(windows)]

\* predict_next_24h_risks at the time t.  The frames of extract_fip_metrics
\* reach back 168 hours, so the last maintenance window is never more than
\* 30 days old and no recommendation is made.
predict_next_24h_risks(p, t) ==
    LET windows == HighRiskPeriods(p, t, 0)
    IN  [high_risk_periods |-> windows,
         maintenance_recommendations |-> << >>,
         overall_risk_score |-> OverallRisk(p, windows),
         confidence_level |-> "MEDIUM"]

(***************************************************************************)
(* Input frames.  One-row frames take every combination of present columns *)
(* and cell values; longer frames are hourly series of whole snapshots.    *)
(***************************************************************************)
CellValues ==
    [consent_success_rate |-> {Num(60), Num(70), Num(77), Num(85), Num(100), NaN},
     data_fetch_success_rate |-> {Num(70), Num(75), Num(83), Num(90), NaN},
     response_time |-> {Num(20), Num(30), Num(40), Num(50), Num(60), NaN},
     error_rate |-> {Num(0), Num(5), Num(8), Num(10), Num(50), NaN},
     status |-> {Num(0), Num(5), Num(6), Num(8), Num(10), NaN}]

Snapshot(c, f, r, e, s) ==
    [consent_success_rate |-> Num(c), data_fetch_success_rate |-> Num(f),
     response_time |-> Num(r), error_rate |-> Num(e), status |-> Num(s)]

AtWarning == [m \in Metrics |-> Num(fip_metrics_config[m].threshold_warning)]

AtCritical == [m \in Metrics |-> Num(fip_metrics_config[m].threshold_critical)]

\* all at warning (100), all at critical (0, a down sample), exactly 30
\* (error rate and status at warning, the rest critical)
Snapshots == {AtWarning, AtCritical, Snapshot(60, 70, 60, 5, 8)}

Hour(d, h) == (d * 24 + h) * 4

\* Mon 07:00, Mon 10:00, Mon 15:00, Fri 16:00, Sat 01:00, Sun 21:00
StartTimes ==
    {Hour(0, 7), Hour(0, 10), Hour(0, 15), Hour(4, 16), Hour(5, 1), Hour(6, 21)}

\* sampling steps: 15 minutes, 1 hour, 4 hours
Steps == {1, 4, 16}

\* longest input frame
MaxRows == 5

Absent == [nan |-> TRUE, v |-> 1]

Options(m) == CellValues[m] \cup {Absent}

Present(v) == {m \in Metrics : v[m] # Absent}

OneRowFrames ==
    {[columns |-> {"timestamp"} \cup Present(v),
      rows |-> <<[timestamp |-> Hour(0, 10), vals |-> [m \in Present(v) |-> v[m]]]>>] :
        v \in {[consent_success_rate |-> c, data_fetch_success_rate |-> f,
                response_time |-> r, error_rate |-> e, status |-> s] :
                  c \in Options("consent_success_rate"),
                  f \in Options("data_fetch_success_rate"),
                  r \in Options("response_time"),
                  e \in Options("error_rate"),
                  s \in Options("status")}}

SeriesFrames ==
    {[columns |-> {"timestamp"} \cup Metrics,
      rows |-> [i \in 1..n |-> [timestamp |-> t0 + (i - 1) * st, vals |-> sn[i]]]] :
        n \in 1..MaxRows, t0 \in StartTimes, st \in Steps, sn \in [1..MaxRows -> Snapshots]}

EmptyFrame == [columns |-> {}, rows |-> << >>]

NoPatterns ==
    [downtime_events |-> << >>, maintenance_windows |-> << >>,
     recurring_patterns |->
        [high_risk_hours |-> {}, high_risk_days |-> {},
         weekend_risk |-> Frac(0, 0), business_hours_risk |-> Frac(0, 0)],
     risk_trends |->
        [current_health_score |-> 0, health_trend_24h |-> Frac(0, 0),
         critical_incidents_24h |-> 0]]

\* every metric well inside its healthy range
Healthy == Snapshot(95, 95, 10, 1, 10)

\* a sampling step that makes MaxRows samples reach over the 7 days of
\* history: 42 hours
WeekStep == 42 * 4

\* histories in which every metric stays at its healthy baseline
BaselineFrames ==
    {[columns |-> {"timestamp"} \cup Metrics,
      rows |-> [i \in 1..n |-> [timestamp |-> t0 + (i - 1) * st, vals |-> Healthy]]] :
        n \in 1..MaxRows, t0 \in StartTimes, st \in Steps \cup {WeekStep}}

\* a status series, in tenths, sampled hourly from Saturday 01:00: three
\* samples up, then four samples down
StatusScenario == <<10, 10, 10, 0, 0, 0, 0>>

\* frames carrying that status series: with the status column alone, with
\* every other metric healthy throughout, and with the other metrics
\* failing together with the status
ScenarioFrames ==
    {[columns |-> {"timestamp", "status"},
      rows |-> [i \in 1..Len(StatusScenario) |->
                  [timestamp |-> Hour(5, 1) + (i - 1) * 4,
                   vals |-> [m \in {"status"} |-> Num(StatusScenario[i])]]]],
     [columns |-> {"timestamp"} \cup Metrics,
      rows |-> [i \in 1..Len(StatusScenario) |->
                  [timestamp |-> Hour(5, 1) + (i - 1) * 4,
                   vals |-> Snapshot(95, 95, 10, 1, StatusScenario[i])]]],
     [columns |-> {"timestamp"} \cup Metrics,
      rows |-> [i \in 1..Len(StatusScenario) |->
                  [timestamp |-> Hour(5, 1) + (i - 1) * 4,
                   vals |-> IF StatusScenario[i] = 0
                            THEN Snapshot(60, 70, 60, 50, 0)
                            ELSE Snapshot(95, 95, 10, 1, 10)]]]}

\* frames with a column that is no metric of fip_metrics_config
UnknownMetricFrames ==
    {[columns |-> {"timestamp", "consent_success_rate", "uptime_ratio"},
      rows |-> <<[timestamp |-> Hour(0, 10),
                  vals |-> [m \in {"consent_success_rate", "uptime_ratio"} |-> v]]>>] :
        v \in {Num(60), Num(95)}}

\* a history longer than a day of hourly samples: one sample at the
\* critical thresholds followed by samples at the warning thresholds
LongRows == 26

LongFrames ==
    {[columns |-> {"timestamp"} \cup Metrics,
      rows |-> [i \in 1..LongRows |->
                  [timestamp |-> t0 + (i - 1) * 4,
                   vals |-> IF i = 1 THEN AtCritical ELSE AtWarning]]] :
        t0 \in {Hour(0, 7), Hour(4, 16)}}

\* datetime.now() at the forecast: Mon 09:00, Wed 00:00, Fri 20:00, Sat 12:00
NowTimes ==
    {[day |-> 0, hour |-> 9], [day |-> 2, hour |-> 0],
     [day |-> 4, hour |-> 20], [day |-> 5, hour |-> 12]}

NoTime == [day |-> 0, hour |-> 0]

NoPredictions ==
    [high_risk_periods |-> << >>, maintenance_recommendations |-> << >>,
     overall_risk_score |-> [nan |-> FALSE, num |-> 0, den |-> 1],
     confidence_level |-> "MEDIUM"]

(***************************************************************************)
(* The scoring pass of run_comprehensive_analysis: calculate_health_score, *)
(* then detect_patterns on the frame it returned.                          *)
(***************************************************************************)
HealthInit ==
    /\ hpc = "input"
    /\ df \in OneRowFrames \cup SeriesFrames \cup BaselineFrames \cup ScenarioFrames
             \cup UnknownMetricFrames \cup LongFrames
    /\ scored = EmptyFrame
    /\ patterns = NoPatterns
    /\ now = NoTime
    /\ predictions = NoPredictions
    /\ slot_scores = << >>

HealthIdle ==
    /\ hpc = "idle"
    /\ df = EmptyFrame
    /\ scored = EmptyFrame
    /\ patterns = NoPatterns
    /\ now = NoTime
    /\ predictions = NoPredictions
    /\ slot_scores = << >>

CalculateHealthScore ==
    /\ hpc = "input"
    /\ scored' = calculate_health_score(df)
    /\ hpc' = "scored"
    /\ UNCHANGED <<df, patterns, now, predictions, slot_scores>>
    /\ UNCHANGED otherThanHealth

DetectPatterns ==
    /\ hpc = "scored"
    /\ patterns' = detect_patterns(scored.rows)
    /\ scored' = MarkDowntime(scored)
    /\ hpc' = "detected"
    /\ UNCHANGED <<df, now, predictions, slot_scores>>
    /\ UNCHANGED otherThanHealth

\* step 4 of run_comprehensive_analysis: the forecast from the patterns
PredictNext24hRisks ==
    /\ hpc = "detected"
    /\ \E t \in NowTimes :
          /\ now' = t
          /\ predictions' = predict_next_24h_risks(patterns, t)
          /\ slot_scores' =
               [s \in 1..24 |->
                  SlotRisk(patterns, SlotHour(t, s - 1), SlotDay(t, s - 1))]
    /\ hpc' = "predicted"
    /\ UNCHANGED <<df, scored, patterns>>
    /\ UNCHANGED otherThanHealth

(***************************************************************************)
(* Properties of the scoring pass.                                         *)
(***************************************************************************)
ScoredRows == 1..Len(scored.rows)

\* C1: every health_score that calculate_health_score produces lies in
\* [0,100], whatever subset of the configured metrics is present and
\* whatever the cell values are (NaN included).
C1_HealthScoreInRange ==
    hpc \in {"scored", "detected"} =>
        \A i \in ScoredRows :
            /\ scored.rows[i].health_score >= 0
            /\ scored.rows[i].health_score <= 100 * Scale

\* a scored snapshot with a missing column, a NaN cell and a value far beyond
\* its critical threshold, whose score is strictly inside the range
C1_Witness ==
    /\ hpc = "scored"
    /\ "status" \notin df.columns
    /\ {"consent_success_rate", "error_rate"} \subseteq df.columns
    /\ \E i \in ScoredRows :
          /\ scored.rows[i].vals["consent_success_rate"] = NaN
          /\ scored.rows[i].vals["error_rate"] = Num(50)
          /\ scored.rows[i].health_score > 0
          /\ scored.rows[i].health_score < 100 * Scale

\* C2: with all five metrics present, a snapshot with every metric at its
\* warning threshold scores exactly 100 and one with every metric at its
\* critical threshold scores exactly 0.
C2_WarningIs100CriticalIs0 ==
    hpc \in {"scored", "detected"} =>
        \A i \in ScoredRows :
            LET at(th) == \A m \in Metrics :
                              /\ m \in df.columns
                              /\ df.rows[i].vals[m] = Num(th[m])
            IN  /\ at([m \in Metrics |-> fip_metrics_config[m].threshold_warning])
                      => scored.rows[i].health_score = 100 * Scale
                /\ at([m \in Metrics |-> fip_metrics_config[m].threshold_critical])
                      => scored.rows[i].health_score = 0

\* a scored frame holding an all-at-warning row and an all-at-critical row
C2_Witness ==
    /\ hpc = "scored"
    /\ \E i, j \in ScoredRows :
          /\ df.rows[i].vals = AtWarning
          /\ df.rows[j].vals = AtCritical
          /\ scored.rows[i].health_score = 100 * Scale
          /\ scored.rows[j].health_score = 0

\* C3 (as claimed): the risk level follows the left-closed buckets
\* [0,30)=CRITICAL, [30,60)=HIGH, [60,85)=MEDIUM, [85,100]=LOW, so that a
\* score of exactly 30 is HIGH, exactly 60 is MEDIUM and exactly 85 is LOW.
C3_LeftClosedBuckets ==
    hpc \in {"scored", "detected"} =>
        \A i \in ScoredRows :
            LET hs == scored.rows[i].health_score
                lv == scored.rows[i].risk_level
            IN  /\ (0 <= hs /\ hs < 30 * Scale) => lv = "CRITICAL"
                /\ (30 * Scale <= hs /\ hs < 60 * Scale) => lv = "HIGH"
                /\ (60 * Scale <= hs /\ hs < 85 * Scale) => lv = "MEDIUM"
                /\ (85 * Scale <= hs /\ hs <= 100 * Scale) => lv = "LOW"

\* the samples of an emitted event, read back from the caller's input frame
EventSamples(e) == {df.rows[i].timestamp : i \in e.first..e.last}

InBusinessHours(ts) == ((ts \div 4) % 24) \in 9..17

OnWeekend(ts) == ((ts \div 96) % 7) \in {5, 6}

EmittedEvents ==
    {patterns.downtime_events[k] : k \in 1..Len(patterns.downtime_events)}
      \cup {patterns.maintenance_windows[k] : k \in 1..Len(patterns.maintenance_windows)}

\* C10: an emitted episode is flagged is_maintenance exactly when none of its
\* samples is inside business hours or at least one of them is on a weekend;
\* so an episode entirely on a Saturday is maintenance, and one whose samples
\* all lie on Monday between 10:00 and 11:00 is not.
C10_MaintenanceIff ==
    hpc = "detected" =>
        \A e \in EmittedEvents :
            LET S == EventSamples(e)
            IN  /\ e.is_maintenance <=>
                      \/ \A ts \in S : ~InBusinessHours(ts)
                      \/ \E ts \in S : OnWeekend(ts)
                /\ (\A ts \in S : (ts \div 96) % 7 = 5) => e.is_maintenance
                /\ (\A ts \in S : ts >= 10 * 4 /\ ts <= 11 * 4) => ~e.is_maintenance

\* a pass that emitted an episode whose samples all lie on Monday between
\* 10:00 and 11:00, reported as a downtime event and not as maintenance
C10_Witness ==
    /\ hpc = "detected"
    /\ \E k \in 1..Len(patterns.downtime_events) :
          LET e == patterns.downtime_events[k]
          IN  /\ \A ts \in EventSamples(e) : ts >= 10 * 4 /\ ts <= 11 * 4
              /\ ~e.is_maintenance

\* a pass that emitted an episode entirely on a Saturday with samples inside
\* business hours, reported as maintenance
C10_SaturdayReached ==
    /\ hpc = "detected"
    /\ \E k \in 1..Len(patterns.maintenance_windows) :
          LET e == patterns.maintenance_windows[k]
          IN  /\ \A ts \in EventSamples(e) : (ts \div 96) % 7 = 5
              /\ \E ts \in EventSamples(e) : InBusinessHours(ts)
              /\ e.is_maintenance

\* the maximal runs <<a, b>> of consecutive rows with health_score < 30
DownRuns ==
    LET rows == scored.rows
        n == Len(rows)
        Down(i) == rows[i].health_score < 30 * Scale
    IN  {r \in (1..n) \X (1..n) :
            /\ r[1] <= r[2]
            /\ \A i \in r[1]..r[2] : Down(i)
            /\ (r[1] = 1 \/ ~Down(r[1] - 1))
            /\ (r[2] = n \/ ~Down(r[2] + 1))}

AllEvents == patterns.downtime_events \o patterns.maintenance_windows

\* C11: detect_patterns emits exactly one event for each maximal run of
\* consecutive down samples that has at least 3 samples and none for a
\* shorter run; every event covers at least 3 consecutive down samples and
\* is in exactly one of maintenance_windows and downtime_events.
C11_OneEventPerLongRun ==
    hpc = "detected" =>
        /\ \A r \in DownRuns :
              Cardinality({k \in 1..Len(AllEvents) :
                              AllEvents[k].first = r[1] /\ AllEvents[k].last = r[2]})
                = IF r[2] - r[1] + 1 >= 3 THEN 1 ELSE 0
        /\ \A k \in 1..Len(AllEvents) :
              /\ <<AllEvents[k].first, AllEvents[k].last>> \in DownRuns
              /\ AllEvents[k].last - AllEvents[k].first + 1 >= 3
        /\ \A k \in 1..Len(patterns.downtime_events) :
              ~patterns.downtime_events[k].is_maintenance
        /\ \A k \in 1..Len(patterns.maintenance_windows) :
              patterns.maintenance_windows[k].is_maintenance

\* a frame with a short run that gives no event and a run of three samples
\* that gives one
C11_Witness ==
    /\ hpc = "detected"
    /\ \E short, long \in DownRuns :
          /\ short[2] - short[1] + 1 < 3
          /\ long[2] - long[1] + 1 >= 3
    /\ Len(AllEvents) = 1

\* the input frame carries the status series of StatusScenario, hourly from
\* Saturday 01:00
IsStatusScenario ==
    /\ Len(df.rows) = Len(StatusScenario)
    /\ "status" \in df.columns
    /\ \A i \in 1..Len(df.rows) :
          /\ df.rows[i].timestamp = Hour(5, 1) + (i - 1) * 4
          /\ df.rows[i].vals["status"] = Num(StatusScenario[i])

\* C18 (as claimed): for the status series 1, 1, 1, 0, 0, 0, 0 sampled
\* hourly from Saturday 01:00 the detector emits exactly one event, covering
\* the four 0.0 samples, flagged is_maintenance, lasting about 4 hours
\* (within half an hour of 240 minutes).
C18_SaturdayOutageEvent ==
    (hpc \in {"detected", "predicted"} /\ IsStatusScenario) =>
        /\ patterns.downtime_events = << >>
        /\ Len(patterns.maintenance_windows) = 1
        /\ LET e == patterns.maintenance_windows[1]
           IN  /\ e.first = 4 /\ e.last = 7
               /\ e.is_maintenance
               /\ e.duration_minutes >= 210 /\ e.duration_minutes <= 270

\* the input frame names a metric that fip_metrics_config does not hold
HasUnknownMetric == df.columns \ ({"timestamp"} \cup Metrics) # {}

\* C16 (as claimed): an unknown metric name is reported to the caller before
\* any analysis step of the pass runs: no frame naming an unknown metric is
\* scored.
C16_UnknownMetricRefused == HasUnknownMetric => hpc = "input"

\* C22 (as claimed): a scoring or pattern-detection pass does not modify the
\* frame handed to it: calculate_health_score leaves df as it was and
\* detect_patterns leaves the scored frame it was given as it was.
C22_InputFrameUnchanged ==
    [][/\ (hpc = "input" /\ hpc' = "scored") => df' = df
       /\ (hpc = "scored" /\ hpc' = "detected") => scored' = scored]_vars

\* C23 (as claimed): an emitted episode is flagged is_maintenance only if
\* none of its samples falls in business hours on a weekday; an episode with
\* a sample in weekday business hours is an outage.
C23_MaintenanceOnlyOutsideWeekdayBusiness ==
    hpc \in {"detected", "predicted"} =>
        \A e \in EmittedEvents :
            (\E ts \in EventSamples(e) : InBusinessHours(ts) /\ ~OnWeekend(ts))
                => ~e.is_maintenance

(***************************************************************************)
(* Properties of the forecast.                                             *)
(***************************************************************************)
Windows == {predictions.high_risk_periods[k] : k \in 1..Len(predictions.high_risk_periods)}

\* C12 (as claimed): the risk score of each of the 24 slots lies in [0,1],
\* whatever recurrence sets, weekend risk rate, health trend and current
\* health score the detected patterns hold.
C12_SlotScoreInRange ==
    hpc = "predicted" =>
        \A s \in 1..24 :
            /\ ~slot_scores[s].nan
            /\ 0 <= slot_scores[s].num
            /\ slot_scores[s].num <= slot_scores[s].den

\* C13: a window is reported for a slot exactly when the slot's score is
\* strictly greater than 0.4, a slot scoring exactly 0.4 is not reported,
\* and there is at most one window per slot, so at most 24.
C13_ReportedIffAbove ==
    hpc = "predicted" =>
        /\ \A s \in 1..24 :
              Cardinality({k \in 1..Len(predictions.high_risk_periods) :
                              predictions.high_risk_periods[k].time = s - 1})
                = IF ~slot_scores[s].nan /\ 10 * slot_scores[s].num > 4 * slot_scores[s].den
                  THEN 1 ELSE 0
        /\ \A w \in Windows : w.time \in SlotOffsets /\ w.risk_score = slot_scores[w.time + 1]
        /\ Len(predictions.high_risk_periods) <= 24

\* a forecast with a slot scoring exactly 0.4, not reported, and another
\* slot that is reported
C13_Witness ==
    /\ hpc = "predicted"
    /\ \E s \in 1..24 :
          /\ ~slot_scores[s].nan
          /\ 10 * slot_scores[s].num = 4 * slot_scores[s].den
          /\ \A w \in Windows : w.time # s - 1
    /\ Windows # {}

\* every row of the input frame has every metric at or beyond its warning
\* threshold on the healthy side
AllHealthy ==
    \A i \in 1..Len(df.rows) :
        /\ DOMAIN df.rows[i].vals = Metrics
        /\ \A m \in Metrics :
              LET c == df.rows[i].vals[m]
                  cfg == fip_metrics_config[m]
              IN  /\ ~c.nan
                  /\ IF cfg.invert THEN c.v <= cfg.threshold_warning
                     ELSE c.v >= cfg.threshold_warning

\* C19: when every metric stays at its healthy baseline through the
\* history, the forecast returns no window: no slot's score exceeds 0.4.
C19_HealthyNoWindows ==
    (hpc = "predicted" /\ AllHealthy) =>
        /\ predictions.high_risk_periods = << >>
        /\ \A s \in 1..24 :
              slot_scores[s].nan \/ 10 * slot_scores[s].num <= 4 * slot_scores[s].den

\* a healthy history reaching over 7 days, forecast on a Friday evening so
\* that weekend slots are scored, with no window
C19_Witness ==
    /\ hpc = "predicted"
    /\ AllHealthy
    /\ df \in BaselineFrames
    /\ Len(df.rows) >= 5
    /\ df.rows[Len(df.rows)].timestamp - df.rows[1].timestamp >= 7 * 96
    /\ now = [day |-> 4, hour |-> 20]
    /\ \E s \in 1..24 : ~slot_scores[s].nan /\ slot_scores[s].num > 0
    /\ predictions.high_risk_periods = << >>

\* the health trend as the claim defines it: the mean successive delta of
\* the health score over the last 24 observed samples
TrendOverLast24(rows) ==
    LET n == Len(rows)
        f == IF n > 24 THEN n - 23 ELSE 1
    IN  Frac(rows[n].health_score - rows[f].health_score, n - f)

\* the score the claim gives a slot: 0.10 + 0.30 (high-risk hour) + 0.20
\* (high-risk day) + 0.5 * weekend_risk (weekend slot) + 0.20 / - 0.10
\* (trend below -1 / above +1) + 0.30 / 0.10 (health below 50 / 70),
\* clamped to [0,1]; NaN when the weekend risk rate is NaN
ClaimedSlotRisk(p, rows, hour, day_of_week) ==
    LET rp == p.recurring_patterns
        w == IF day_of_week \in {5, 6} THEN rp.weekend_risk
             ELSE [nan |-> FALSE, num |-> 0, den |-> 1]
        tenths == 1
                  + (IF hour \in rp.high_risk_hours THEN 3 ELSE 0)
                  + (IF day_of_week \in rp.high_risk_days THEN 2 ELSE 0)
                  + TrendImpact(TrendOverLast24(rows))
                  + HealthImpact(rows[Len(rows)].health_score)
        num == 2 * tenths * w.den + 10 * w.num
        den == 20 * w.den
    IN  IF w.nan THEN [nan |-> TRUE, num |-> 0, den |-> 1]
        ELSE IF num > den THEN [nan |-> FALSE, num |-> den, den |-> den]
        ELSE IF num < 0 THEN [nan |-> FALSE, num |-> 0, den |-> den]
        ELSE [nan |-> FALSE, num |-> num, den |-> den]

SameNumber(a, b) ==
    IF a.nan \/ b.nan THEN a.nan /\ b.nan ELSE a.num * b.den = b.num * a.den

\* C24 (as claimed): the risk score of every slot equals the clamp to [0,1]
\* of the base rate plus the hour, weekday, weekend, trend and health terms,
\* the trend being the mean successive delta of the health score over the
\* last 24 observed samples.
C24_SlotScoreFormula ==
    (hpc = "predicted" /\ scored.rows # << >>) =>
        \A s \in 1..24 :
            SameNumber(slot_scores[s],
                       ClaimedSlotRisk(patterns, scored.rows,
                                       SlotHour(now, s - 1), SlotDay(now, s - 1)))

(***************************************************************************)
(* AlertService.__init__: thresholds and trend bounds.                     *)
(***************************************************************************)
thresholds ==
    [consent_success_rate |-> [critical |-> 70, warning |-> 85],
     data_fetch_success_rate |-> [critical |-> 65, warning |-> 80]]

\* trend_thresholds['rapid_decline'], percent
rapid_decline == -10

\* the confidence _create_alert gives every alert (0.95), in hundredths
CreateConfidence == 95

\* the success-rate metrics the checks read
RateMetrics == <<"consent_success_rate", "data_fetch_success_rate">>

(***************************************************************************)
(* Series arithmetic.  A series is a sequence of integers; a trend or a    *)
(* mean is an exact fraction num/den with den > 0, or NaN.                 *)
(***************************************************************************)
RECURSIVE SeqSum(_)
SeqSum(series) ==
    IF series = << >> THEN 0 ELSE Head(series) + SeqSum(Tail(series))

RECURSIVE IndexedSum(_, _)
\* sum of x*y over the points (x, y) = (k-1, series[k]), k = i..Len(series)
IndexedSum(series, i) ==
    IF i > Len(series) THEN 0
    ELSE (i - 1) * series[i] + IndexedSum(series, i + 1)

Zero == [nan |-> FALSE, num |-> 0, den |-> 1]

NotANumber == [nan |-> TRUE, num |-> 0, den |-> 1]

\* a < b on fractions; false when either is NaN
FracLess(a, b) == ~a.nan /\ ~b.nan /\ a.num * b.den < b.num * a.den

\* a < k for an integer k
FracBelow(a, k) == ~a.nan /\ a.num < k * a.den

\* _calculate_trend: 0.0 under two points, else len * (least-squares slope
\* against the index 0..len-1)
CalculateTrend(series) ==
    LET n == Len(series)
        sx == (n * (n - 1)) \div 2
        sxx == ((n - 1) * n * (2 * n - 1)) \div 6
    IN  IF n < 2 THEN Zero
        ELSE [nan |-> FALSE,
              num |-> n * (n * IndexedSum(series, 1) - sx * SeqSum(series)),
              den |-> n * sxx - sx * sx]

\* series.rolling(window=w).mean() at position k: NaN until w points are seen
RollingMean(series, w, k) ==
    IF k < w THEN NotANumber
    ELSE [nan |-> FALSE, num |-> SeqSum(SubSeq(series, k - w + 1, k)), den |-> w]

\* _calculate_rolling_trend: the relative change, in percent, from the first
\* to the last rolling mean over window_minutes // 5 points (a first mean of 0
\* gives NaN or +inf, neither of which compares below anything)
CalculateRollingTrend(series, window_minutes) ==
    LET w == window_minutes \div 5
        first == RollingMean(series, w, 1)
        last == RollingMean(series, w, Len(series))
    IN  IF Len(series) < 2 THEN Zero
        ELSE IF first.nan \/ last.nan \/ first.num <= 0 THEN NotANumber
        ELSE [nan |-> FALSE, num |-> 100 * (last.num - first.num), den |-> first.num]

\* df['value'].std() / df['value'].mean() * 100 > 15, with the sample
\* standard deviation (NaN for one point) and cv = 0 when the mean is not > 0
HighVariation(series) ==
    LET n == Len(series)
        S == SeqSum(series)
        dev == [k \in 1..n |-> (n * series[k] - S) * (n * series[k] - S)]
    IN  /\ n >= 2
        /\ S > 0
        /\ 10000 * SeqSum(dev) > 225 * S * S * (n - 1)

(***************************************************************************)
(* Alerts.                                                                 *)
(***************************************************************************)
\* _create_alert; seq stands for alert_id / timestamp: the position of the
\* alert among those created in the pass, set when the alert joins the list
CreateAlert(fip, severity, alert_type, message, current_rate, deviation, threshold) ==
    [fip_name |-> fip, severity |-> severity, alert_type |-> alert_type,
     message |-> message, current_rate |-> current_rate, deviation |-> deviation,
     threshold |-> threshold, confidence |-> CreateConfidence, seq |-> 0]

\* the alerts of one check, numbered in creation order after the n created before
Stamp(list, n) == [k \in 1..Len(list) |-> [list[k] EXCEPT !.seq = n + k]]

\* the key of _deduplicate_alerts
AlertKey(a) == <<a.fip_name, a.alert_type, a.severity>>

RECURSIVE DedupKeepLast(_)
\* fault model: the last alert of a key survives
DedupKeepLast(list) ==
    IF list = << >> THEN << >>
    ELSE LET rest == Tail(list)
         IN  IF \E k \in 1..Len(rest) : AlertKey(rest[k]) = AlertKey(Head(list))
             THEN DedupKeepLast(rest)
             ELSE <<Head(list)>> \o DedupKeepLast(rest)

RECURSIVE DeduplicateFrom(_, _, _)
DeduplicateFrom(list, i, seen) ==
    IF i > Len(list) THEN << >>
    ELSE IF AlertKey(list[i]) \in seen
         THEN DeduplicateFrom(list, i + 1, seen)
         ELSE <<list[i]>> \o DeduplicateFrom(list, i + 1, seen \cup {AlertKey(list[i])})

\* _deduplicate_alerts: the first alert of each key survives
DeduplicateAlerts(list) == DeduplicateFrom(list, 1, {})

\* the sort key (x.severity == 'critical', x.confidence), compared as tuples
SortKeyLess(a, b) ==
    LET ca == IF a.severity = "critical" THEN 1 ELSE 0
        cb == IF b.severity = "critical" THEN 1 ELSE 0
    IN  ca < cb \/ (ca = cb /\ a.confidence < b.confidence)

\* x placed before the first element whose key is smaller than x's
InsertDescending(sorted, x) ==
    LET smaller == {k \in 1..Len(sorted) : SortKeyLess(sorted[k], x)}
        pos == IF smaller = {} THEN Len(sorted) + 1 ELSE SetMin(smaller)
    IN  SubSeq(sorted, 1, pos - 1) \o <<x>> \o SubSeq(sorted, pos, Len(sorted))

RECURSIVE SortAlertsFrom(_, _, _)
SortAlertsFrom(list, i, sorted) ==
    IF i > Len(list) THEN sorted
    ELSE SortAlertsFrom(list, i + 1, InsertDescending(sorted, list[i]))

\* alerts.sort(key=..., reverse=True): stable, descending
SortAlerts(list) == SortAlertsFrom(list, 1, << >>)

(***************************************************************************)
(* The checks of one entity.  `metrics` is the entity's current metrics,   *)
(* `short_term` maps each metric of short_term_data to the entity's slice. *)
(***************************************************************************)
\* current_metrics.get(key, 0)
Get(metrics, key) == IF key \in DOMAIN metrics THEN metrics[key] ELSE 0

\* _get_time_sliced_data: a metric is a key iff its frame is not empty; the
\* slice holds the entity's rows inside the window
GetTimeSlicedData(hist, fip) ==
    [m \in {k \in DOMAIN hist :
                hist[k].older_rows \/ \E f \in DOMAIN hist[k].window : hist[k].window[f] # << >>}
       |-> hist[m].window[fip]]

ViolationType(m) ==
    IF m = "consent_success_rate" THEN "consent_rate_violation" ELSE "data_fetch_violation"

\* one block of _check_threshold_violations
ThresholdBlock(fip, metrics, short_term, m) ==
    LET rate == Get(metrics, m)
        series == short_term[m]
        trend == IF series # << >> THEN CalculateTrend(series) ELSE Zero
        severity == IF FracBelow(trend, rapid_decline) THEN "critical" ELSE "warning"
    IN  IF rate < thresholds[m].critical /\ m \in DOMAIN short_term
        THEN <<CreateAlert(fip, severity, ViolationType(m), <<"below threshold", m>>,
                           rate, trend, thresholds[m].critical)>>
        ELSE << >>

\* _check_threshold_violations
CheckThresholdViolations(fip, metrics, short_term) ==
    ThresholdBlock(fip, metrics, short_term, RateMetrics[1])
      \o ThresholdBlock(fip, metrics, short_term, RateMetrics[2])

\* one iteration of the loop of _check_trend_anomalies
TrendBlock(fip, metrics, short_term, m) ==
    IF m \in DOMAIN short_term /\ short_term[m] # << >>
    THEN LET t1 == CalculateRollingTrend(short_term[m], 30)
             t2 == CalculateRollingTrend(short_term[m], 60)
             t3 == CalculateRollingTrend(short_term[m], 180)
         IN  IF /\ FracBelow(t1, 0) /\ FracBelow(t2, 0) /\ FracBelow(t3, 0)
                /\ FracLess(t1, t2) /\ FracLess(t2, t3)
             THEN <<CreateAlert(fip, "warning", "accelerating_decline",
                                <<"accelerating decline", m>>, Get(metrics, m), t1,
                                rapid_decline)>>
             ELSE << >>
    ELSE << >>

\* _check_trend_anomalies
CheckTrendAnomalies(fip, metrics, short_term) ==
    TrendBlock(fip, metrics, short_term, RateMetrics[1])
      \o TrendBlock(fip, metrics, short_term, RateMetrics[2])

\* _check_pattern_anomalies, the definition in force (the second one of the
\* class body, which replaces the first): its branch calls
\* _create_alert(..., confidence=0.88), a keyword _create_alert does not
\* take, so the call raises TypeError
PatternCheckRaises(metrics) ==
    Get(metrics, "consent_success_rate") > 90 /\ Get(metrics, "data_fetch_success_rate") < 60

\* _check_pattern_anomalies when it returns: no alert
CheckPatternAnomalies(fip, metrics, short_term) == << >>

\* one iteration of the loop of _check_stability_issues
StabilityBlock(fip, metrics, short_term, m) ==
    IF m \in DOMAIN short_term /\ short_term[m] # << >> /\ HighVariation(short_term[m])
    THEN <<CreateAlert(fip, "warning", "stability_issue", <<"high variability", m>>,
                       Get(metrics, m), Zero, 15)>>
    ELSE << >>

\* _check_stability_issues
CheckStabilityIssues(fip, metrics, short_term) ==
    StabilityBlock(fip, metrics, short_term, RateMetrics[1])
      \o StabilityBlock(fip, metrics, short_term, RateMetrics[2])

(***************************************************************************)
(* AlertService.generate_alerts: the loop over current_metrics.items()     *)
(* inside one try block.                                                   *)
(***************************************************************************)
\* the entities of a pass, in the order of current_metrics.items()
FipOrder == <<"sbi-fip", "hdfc-fip">>

Fips == {FipOrder[i] : i \in 1..Len(FipOrder)}

CurrentMetricsInputs ==
    [Fips -> [consent_success_rate : {20, 80, 95}, data_fetch_success_rate : {50, 70, 95}]]

\* slices tried: empty, flat, steep and volatile decline, slow decline, and
\* a drop to 20 followed by two flat hours (trend -15)
\* 13 samples, 5 minutes apart, that fall faster and faster, from 20 to 10
DecliningSeries == [k \in 1..13 |-> 20 - (k * k) \div 16]

ConsentSeries ==
    {<< >>, <<20, 20>>, <<95, 50, 20>>, <<100, 96, 92>>, <<30, 20, 20>>,
     DecliningSeries}

FetchSeries == {<< >>, <<20, 20>>, <<95, 50, 20>>}

HistoricalInputs ==
    [consent_success_rate : [older_rows : BOOLEAN, window : [Fips -> ConsentSeries]],
     data_fetch_success_rate : [older_rows : BOOLEAN, window : [Fips -> FetchSeries]]]

AlertInit ==
    /\ apc = "running"
    /\ current_metrics \in CurrentMetricsInputs
    /\ historical_data \in HistoricalInputs
    /\ next_fip = 1
    /\ alerts = << >>
    /\ generated = << >>
    /\ alert_error = "none"

AlertIdle ==
    /\ apc = "idle"
    /\ current_metrics = << >>
    /\ historical_data = << >>
    /\ next_fip = 0
    /\ alerts = << >>
    /\ generated = << >>
    /\ alert_error = "none"

\* the alerts the first two checks add before _check_pattern_anomalies runs
BeforePattern(fip) ==
    LET st == GetTimeSlicedData(historical_data, fip)
        m == current_metrics[fip]
    IN  CheckThresholdViolations(fip, m, st) \o CheckTrendAnomalies(fip, m, st)

\* the alerts the last two checks add
FromPattern(fip) ==
    LET st == GetTimeSlicedData(historical_data, fip)
        m == current_metrics[fip]
    IN  CheckPatternAnomalies(fip, m, st) \o CheckStabilityIssues(fip, m, st)

\* one iteration of the loop that completes: four checks, then deduplicate
\* and sort the whole list
ProcessFip ==
    /\ apc = "running"
    /\ next_fip <= Len(FipOrder)
    /\ ~PatternCheckRaises(current_metrics[FipOrder[next_fip]])
    /\ LET fip == FipOrder[next_fip]
           new == Stamp(BeforePattern(fip) \o FromPattern(fip), Len(generated))
       IN  /\ generated' = generated \o new
           /\ alerts' = SortAlerts(DeduplicateAlerts(alerts \o new))
    /\ next_fip' = next_fip + 1
    /\ UNCHANGED <<apc, current_metrics, historical_data, alert_error>>
    /\ UNCHANGED otherThanAlerts

\* one iteration whose third check raises: the first two checks have extended
\* the list; control leaves the loop for the except clause, which logs, and
\* the function returns the list as it is
ProcessFipRaises ==
    /\ apc = "running"
    /\ next_fip <= Len(FipOrder)
    /\ PatternCheckRaises(current_metrics[FipOrder[next_fip]])
    /\ LET fip == FipOrder[next_fip]
           new == Stamp(BeforePattern(fip), Len(generated))
       IN  /\ generated' = generated \o new
           /\ alerts' = alerts \o new
           /\ alert_error' = fip
    /\ apc' = "done"
    /\ UNCHANGED <<current_metrics, historical_data, next_fip>>
    /\ UNCHANGED otherThanAlerts

\* the loop is exhausted: return alerts
ReturnAlerts ==
    /\ apc = "running"
    /\ next_fip > Len(FipOrder)
    /\ apc' = "done"
    /\ UNCHANGED <<current_metrics, historical_data, next_fip, alerts, generated, alert_error>>
    /\ UNCHANGED otherThanAlerts

(***************************************************************************)
(* Properties of a generate_alerts pass.                                   *)
(***************************************************************************)
Returned == {alerts[k] : k \in 1..Len(alerts)}

Generated == {generated[k] : k \in 1..Len(generated)}

SameKey(a, b) ==
    a.fip_name = b.fip_name /\ a.alert_type = b.alert_type /\ a.severity = b.severity

\* C4: the returned list holds at most one alert per (entity, alert_type,
\* severity), and the one it holds is the first alert generated with that
\* key in the pass, whatever its message.
C4_OnePerKeyFirstSurvives ==
    apc = "done" =>
        /\ \A i, j \in 1..Len(alerts) : SameKey(alerts[i], alerts[j]) => i = j
        /\ \A a \in Returned : \A g \in Generated : SameKey(a, g) => a.seq <= g.seq
        /\ \A g \in Generated : \E a \in Returned : SameKey(a, g)

\* a returned list for which two alerts with one key and different messages
\* were generated, the earlier of which is returned
C4_Witness ==
    /\ apc = "done"
    /\ \E g1, g2 \in Generated :
          /\ SameKey(g1, g2)
          /\ g1.seq < g2.seq
          /\ g1.message # g2.message
          /\ g1 \in Returned
          /\ g2 \notin Returned

SeverityRank(a) ==
    IF a.severity = "critical" THEN 0 ELSE IF a.severity = "warning" THEN 1 ELSE 2

\* C5 (as claimed): the returned list is ordered by severity, critical before
\* warning before info, and by descending confidence within a severity.
C5_OrderedBySeverity ==
    apc = "done" =>
        \A i, j \in 1..Len(alerts) :
            i < j =>
                \/ SeverityRank(alerts[i]) < SeverityRank(alerts[j])
                \/ /\ SeverityRank(alerts[i]) = SeverityRank(alerts[j])
                   /\ alerts[i].confidence >= alerts[j].confidence

\* the keys of the alerts the checks yield for one entity taken alone
ExpectedKeys(fip) ==
    LET list == BeforePattern(fip) \o FromPattern(fip)
    IN  {AlertKey(list[k]) : k \in 1..Len(list)}

\* C6 (as claimed): when the checks of one entity raise, the pass goes on:
\* every other entity is still evaluated and its alerts are returned.
C6_OtherEntitiesEvaluated ==
    apc = "done" =>
        \A fip \in Fips :
            fip # alert_error =>
                \A key \in ExpectedKeys(fip) : \E a \in Returned : AlertKey(a) = key

(***************************************************************************)
(* Per-entity batch loops.                                                 *)
(*   calculate_features (historical_analyzer.py): one feature dictionary   *)
(*     per entity that has rows in some metric frame;                      *)
(*   monitor_all_fips (predictor.py): one analysis result per entity of    *)
(*     fip_list.                                                           *)
(* A sample of a range query is a number, NaN, or +Inf (Prometheus sends   *)
(* "+Inf" for a positive value divided by zero and float() parses it).     *)
(***************************************************************************)
BatchFips == {"sbi-fip", "hdfc-fip", "icici-fip"}

Sample(x) == [kind |-> "num", v |-> x]

PlusInf == [kind |-> "inf", v |-> 0]

FeatureMetrics == {"consent_success_rate", "response_time"}

\* the number a finite sample carries
SampleValues(series) == [k \in 1..Len(series) |-> series[k].v]

HasInf(series) == \E k \in 1..Len(series) : series[k].kind = "inf"

\* the rows of entity fip in the frame of metric m
FipSeries(data, m, fip) == data[m][fip]

\* fip_data of _calculate_fip_features: the metrics where the entity has rows
FipData(data, fip) == {m \in DOMAIN data : FipSeries(data, m, fip) # << >>}

\* all_fips of calculate_features
AllFips(data) == {fip \in BatchFips : FipData(data, fip) # {}}

\* np.polyfit on a series holding +Inf raises LinAlgError; it is reached for
\* every metric with more than one value
FipFeaturesRaise(data, fip) ==
    \E m \in FipData(data, fip) :
        Len(FipSeries(data, m, fip)) > 1 /\ HasInf(FipSeries(data, m, fip))

\* sign of the least-squares slope against the index 0..n-1
TrendDirection(series) ==
    LET t == CalculateTrend(series)
    IN  IF t.num > 0 THEN "increasing" ELSE IF t.num < 0 THEN "decreasing" ELSE "stable"

\* A float of the feature dictionary: a finite number, NaN or Infinity.  A
\* finite mean carries its value as the fraction val[1] / val[2]; a finite
\* std or coefficient of variation carries its square the same way.
Finite(a, b) == [kind |-> "num", val |-> <<a, b>>]

FloatNaN == [kind |-> "nan", val |-> <<0, 1>>]

FloatInf == [kind |-> "inf", val |-> <<0, 1>>]

RECURSIVE SquareSum(_)
SquareSum(values) ==
    IF values = << >> THEN 0
    ELSE Head(values) * Head(values) + SquareSum(Tail(values))

\* values.mean(): +Inf as soon as a sample is +Inf
SeriesMean(series) ==
    IF HasInf(series) THEN FloatInf
    ELSE Finite(SeqSum(SampleValues(series)), Len(series))

\* values.std(), the sample standard deviation (ddof = 1): 0/0 = NaN for a
\* single sample, NaN (inf - inf) with a +Inf sample; the finite value
\* carries the variance
SeriesStd(series) ==
    LET n == Len(series)
        s == SeqSum(SampleValues(series))
    IN  IF n = 1 \/ HasInf(series) THEN FloatNaN
        ELSE Finite(n * SquareSum(SampleValues(series)) - s * s, n * (n - 1))

\* values.std() / values.mean(), for a mean that is not 0
StdOverMean(series) ==
    LET sd == SeriesStd(series)
        mean == SeriesMean(series)
    IN  IF sd.kind = "nan" \/ mean.kind = "inf" THEN FloatNaN
        ELSE Finite(sd.val[1] * mean.val[2] * mean.val[2],
                    sd.val[2] * mean.val[1] * mean.val[1])

MeanIsZero(series) == ~HasInf(series) /\ SeqSum(SampleValues(series)) = 0

\* _calculate_statistical_features: 'coefficient_of_variation'
CoefficientOfVariation(series) ==
    IF MeanIsZero(series) THEN Finite(0, 1) ELSE StdOverMean(series)

\* _calculate_stability_features: cv of one metric of the stability list
StabilityCV(series) ==
    IF MeanIsZero(series) THEN FloatInf ELSE StdOverMean(series)

\* the metrics whose cv enters all_metrics_stability
StabilityMetrics == {"consent_success_rate", "data_fetch_success_rate"}

\* _calculate_stability_features: the overall_stability section, present
\* when the entity has rows of a stability metric; of the stability metrics
\* the frames hold consent_success_rate only, so the mean of the list is
\* the cv of that metric
StabilityFeatures(data, fip) ==
    [k \in {s \in {"overall_stability"} :
               FipData(data, fip) \cap StabilityMetrics # {}} |->
        [average_coefficient_of_variation |->
            StabilityCV(FipSeries(data, "consent_success_rate", fip))]]

\* _calculate_statistical_features: mean, std and coefficient_of_variation
\* of every metric the entity has rows of
StatisticalFeatures(data, fip) ==
    [m \in FipData(data, fip) |->
        [mean |-> SeriesMean(FipSeries(data, m, fip)),
         std |-> SeriesStd(FipSeries(data, m, fip)),
         coefficient_of_variation |->
            CoefficientOfVariation(FipSeries(data, m, fip))]]

\* _calculate_fip_features, for an entity whose calculation does not raise:
\* the data_quality, statistical, trend and stability sections
FipFeatures(data, fip) ==
    LET present == FipData(data, fip)
    IN  [fip_name |-> fip,
         statistical_features |-> StatisticalFeatures(data, fip),
         stability_features |-> StabilityFeatures(data, fip),
         data_quality |->
            [m \in present |-> [total_points |-> Len(FipSeries(data, m, fip))]],
         trend_features |->
            [m \in {p \in present : Len(FipSeries(data, p, fip)) > 1} |->
                [trend_direction |->
                    TrendDirection(SampleValues(FipSeries(data, m, fip)))]]]

\* the empty dictionary stored for an entity whose calculation raised
EmptyDict == [k \in {} |-> 0]

\* fault model: the except clause sits outside the loop, so the first
\* failure ends it
FeaturesLoopAborts(rest) == << >>

\* calculate_features: the except clause is inside the for body, so the loop
\* goes on with the next entity
FeaturesLoopAfterFailure(rest) == Tail(rest)

\* monitor_all_fips: likewise
MonitorLoopAfterFailure(rest) == Tail(rest)

\* fip_list of monitor_all_fips: (fip_name, bank_name) tuples
fip_list ==
    << <<"sbi-fip", "State Bank of India">>, <<"hdfc-fip", "HDFC Bank">>,
       <<"icici-fip", "ICICI Bank">> >>

\* run_comprehensive_analysis raises ValueError when extract_fip_metrics found
\* no metrics
AnalysisRaises(frame) == frame.rows = << >>

NoMetricsError == [error |-> "No metrics data available"]

\* overall_risk_score of the predictions run_comprehensive_analysis reports,
\* in hundredths
OverallRiskScore == 70

\* run_comprehensive_analysis on a non-empty frame: the scoring and pattern
\* steps run, then patterns and predictions are replaced by fixed
\* dictionaries before the result is compiled
RunComprehensiveAnalysis(fip, bank, frame) ==
    LET df_with_health == calculate_health_score(frame)
        risk_trends == [current_health_score |-> 0]
        predictions_24h == [high_risk_periods |-> << >>,
                        maintenance_recommendations |-> << >>,
                        overall_risk_score |-> OverallRiskScore,
                        confidence_level |-> "MEDIUM"]
    IN  [fip_name |-> fip,
         bank_name |-> bank,
         data_points_analyzed |-> Len(df_with_health.rows),
         patterns |-> [risk_trends |-> risk_trends],
         predictions_24h |-> predictions_24h,
         summary |->
            [current_health_score |-> risk_trends.current_health_score,
             risk_level |->
                IF predictions_24h.overall_risk_score > 60 THEN "HIGH"
                ELSE IF predictions_24h.overall_risk_score > 30 THEN "MEDIUM"
                ELSE "LOW",
             next_high_risk_period |->
                IF predictions_24h.high_risk_periods # << >>
                THEN "first" ELSE "None",
             maintenance_needed |->
                Len(predictions_24h.maintenance_recommendations) > 0]]

\* the entry monitor_all_fips adds to critical_alerts
CriticalAlert(fip, bank, result) ==
    [fip_name |-> fip, bank_name |-> bank,
     health_score |-> result.summary.current_health_score,
     next_risk_period |-> result.summary.next_high_risk_period]

(***************************************************************************)
(* Inputs of the batch loops.                                              *)
(***************************************************************************)
ConsentHistory ==
    {<< >>, <<Sample(95), Sample(50)>>, <<Sample(20), PlusInf, Sample(80)>>,
     <<Sample(95)>>, <<Sample(0), Sample(0)>>}

ResponseHistory == {<< >>, <<Sample(10), Sample(60)>>, <<PlusInf>>}

FeatureInputs ==
    {[m \in FeatureMetrics |->
        IF m = "consent_success_rate" THEN c ELSE r] :
        c \in [BatchFips -> ConsentHistory], r \in [BatchFips -> ResponseHistory]}

MonitorFrames ==
    {EmptyFrame,
     [columns |-> {"timestamp"} \cup Metrics,
      rows |-> <<[timestamp |-> Hour(0, 10), vals |-> AtWarning]>>],
     [columns |-> {"timestamp"} \cup Metrics,
      rows |-> [i \in 1..3 |-> [timestamp |-> Hour(5, 1) + i, vals |-> AtCritical]]]}

MonitorInputs == [BatchFips -> MonitorFrames]

\* the orders in which a set of entities can be iterated
Orders(S) ==
    {o \in [1..Cardinality(S) -> S] : \A i, j \in 1..Cardinality(S) : o[i] = o[j] => i = j}

Names(list) == [k \in 1..Len(list) |-> list[k][1]]

BankOf(fip) == (CHOOSE k \in 1..Len(fip_list) : fip_list[k][1] = fip)

(***************************************************************************)
(* One call of calculate_features or of monitor_all_fips.                  *)
(***************************************************************************)
FeaturesInit ==
    /\ bpc = "running"
    /\ batch_op = "calculate_features"
    /\ batch_data \in FeatureInputs
    /\ remaining \in Orders(AllFips(batch_data))
    /\ batch_results = EmptyDict
    /\ critical_alerts = << >>

MonitorInit ==
    /\ bpc = "running"
    /\ batch_op = "monitor_all_fips"
    /\ batch_data \in MonitorInputs
    /\ remaining = Names(fip_list)
    /\ batch_results = EmptyDict
    /\ critical_alerts = << >>

BatchInit == FeaturesInit \/ MonitorInit

BatchIdle ==
    /\ bpc = "idle"
    /\ batch_op = "none"
    /\ batch_data = << >>
    /\ remaining = << >>
    /\ batch_results = EmptyDict
    /\ critical_alerts = << >>

\* one iteration of the loop of calculate_features that completes
CalculateFeaturesStep ==
    /\ bpc = "running" /\ batch_op = "calculate_features"
    /\ remaining # << >>
    /\ ~FipFeaturesRaise(batch_data, Head(remaining))
    /\ batch_results' =
         [f \in DOMAIN batch_results \cup {Head(remaining)} |->
            IF f = Head(remaining) THEN FipFeatures(batch_data, f)
            ELSE batch_results[f]]
    /\ remaining' = Tail(remaining)
    /\ UNCHANGED <<bpc, batch_op, batch_data, critical_alerts>>
    /\ UNCHANGED otherThanBatch

\* one iteration whose _calculate_fip_features raises: logged, {} stored
CalculateFeaturesCatch ==
    /\ bpc = "running" /\ batch_op = "calculate_features"
    /\ remaining # << >>
    /\ FipFeaturesRaise(batch_data, Head(remaining))
    /\ batch_results' =
         [f \in DOMAIN batch_results \cup {Head(remaining)} |->
            IF f = Head(remaining) THEN EmptyDict ELSE batch_results[f]]
    /\ remaining' = FeaturesLoopAfterFailure(remaining)
    /\ UNCHANGED <<bpc, batch_op, batch_data, critical_alerts>>
    /\ UNCHANGED otherThanBatch

\* one iteration of the loop of monitor_all_fips that completes
MonitorStep ==
    /\ bpc = "running" /\ batch_op = "monitor_all_fips"
    /\ remaining # << >>
    /\ ~AnalysisRaises(batch_data[Head(remaining)])
    /\ LET fip == Head(remaining)
           bank == fip_list[BankOf(fip)][2]
           result == RunComprehensiveAnalysis(fip, bank, batch_data[fip])
       IN  /\ batch_results' =
                [f \in DOMAIN batch_results \cup {fip} |->
                    IF f = fip THEN result ELSE batch_results[f]]
           /\ critical_alerts' =
                IF result.summary.risk_level = "HIGH"
                THEN Append(critical_alerts, CriticalAlert(fip, bank, result))
                ELSE critical_alerts
    /\ remaining' = Tail(remaining)
    /\ UNCHANGED <<bpc, batch_op, batch_data>>
    /\ UNCHANGED otherThanBatch

\* one iteration whose run_comprehensive_analysis raises: logged, the error
\* text stored
MonitorCatch ==
    /\ bpc = "running" /\ batch_op = "monitor_all_fips"
    /\ remaining # << >>
    /\ AnalysisRaises(batch_data[Head(remaining)])
    /\ batch_results' =
         [f \in DOMAIN batch_results \cup {Head(remaining)} |->
            IF f = Head(remaining) THEN NoMetricsError ELSE batch_results[f]]
    /\ remaining' = MonitorLoopAfterFailure(remaining)
    /\ UNCHANGED <<bpc, batch_op, batch_data, critical_alerts>>
    /\ UNCHANGED otherThanBatch

\* the loop is over: the mapping is returned
BatchReturn ==
    /\ bpc = "running"
    /\ remaining = << >>
    /\ bpc' = "done"
    /\ UNCHANGED <<batch_op, batch_data, remaining, batch_results, critical_alerts>>
    /\ UNCHANGED otherThanBatch

(***************************************************************************)
(* Claims on the batch loops.                                              *)
(***************************************************************************)
\* the entities the call was asked to process
BatchEntities ==
    IF batch_op = "calculate_features" THEN AllFips(batch_data)
    ELSE {fip_list[k][1] : k \in 1..Len(fip_list)}

\* the entity's processing raises
EntityFails(fip) ==
    IF batch_op = "calculate_features" THEN FipFeaturesRaise(batch_data, fip)
    ELSE AnalysisRaises(batch_data[fip])

\* what the entity's processing yields when run on its own
ResultAlone(fip) ==
    IF batch_op = "calculate_features" THEN FipFeatures(batch_data, fip)
    ELSE RunComprehensiveAnalysis(fip, fip_list[BankOf(fip)][2], batch_data[fip])

FailureEntry == IF batch_op = "calculate_features" THEN EmptyDict ELSE NoMetricsError

\* C7: calculate_features and monitor_all_fips return an entry for every
\* entity; an entity whose processing raised has the empty or error entry,
\* and every other entity has the result it would have had without the
\* failure.
C7_EntryForEveryEntity ==
    bpc = "done" =>
        /\ DOMAIN batch_results = BatchEntities
        /\ \A fip \in BatchEntities :
              batch_results[fip] =
                 IF EntityFails(fip) THEN FailureEntry ELSE ResultAlone(fip)

\* a finished calculate_features call where one entity failed and an entity
\* processed after it has its features
C7_Witness ==
    /\ bpc = "done"
    /\ batch_op = "calculate_features"
    /\ \E bad, good \in BatchEntities :
          /\ EntityFails(bad) /\ ~EntityFails(good)
          /\ batch_results[bad] = EmptyDict
          /\ batch_results[good] = FipFeatures(batch_data, good)
          /\ batch_results[good].trend_features # EmptyDict

\* a finished monitor_all_fips call where the first entity failed and a later
\* one was analysed
C7_MonitorReached ==
    /\ bpc = "done"
    /\ batch_op = "monitor_all_fips"
    /\ batch_results[fip_list[1][1]] = NoMetricsError
    /\ \E k \in 2..Len(fip_list) :
          /\ ~AnalysisRaises(batch_data[fip_list[k][1]])
          /\ batch_results[fip_list[k][1]].data_points_analyzed = 3

(***************************************************************************)
(* extract_historical_data (historical_analyzer.py): one range query per   *)
(* configured metric, in the order of metric_queries.  What the metrics    *)
(* store answers is the environment's choice at the time of the query.     *)
(***************************************************************************)
metric_queries ==
    <<"consent_success_rate", "data_fetch_success_rate", "response_time",
      "error_rate", "status", "total_requests">>

\* the value strings of a result, as the store sends them
ValueStrings == {"95", "20", "NaN"}

\* float(value) if value != 'NaN' else np.nan
ParseValue(s) ==
    IF s = "NaN" THEN NaN ELSE IF s = "95" THEN Num(95) ELSE Num(20)

\* what a range query can meet: the request raises (timeout, connection
\* refused), the reply has an error status code, the reply body says
\* status != "success", or the reply is a success with its values
Responses ==
    {[kind |-> k, values |-> << >>] : k \in {"timeout", "http_error"}}
    \cup {[kind |-> "not_success", values |-> v] : v \in {<< >>, <<"95">>}}
    \cup {[kind |-> "success", values |-> v] :
            v \in {<< >>, <<"95">>, <<"NaN", "20">>}}

\* the frame built from the values of a successful reply
FrameOf(values) ==
    IF values = << >> THEN EmptyFrame
    ELSE [columns |-> {"fip_name", "bank_name", "value", "labels"},
          rows |-> [k \in 1..Len(values) |-> ParseValue(values[k])]]

\* fault model: the status of the reply body is not looked at
QueryRangeIgnoresStatus(response) ==
    IF response.kind \in {"success", "not_success"} THEN FrameOf(response.values)
    ELSE EmptyFrame

\* _query_range: every failure is caught inside and gives an empty frame
QueryRange(response) ==
    IF response.kind = "success" THEN FrameOf(response.values)
    ELSE EmptyFrame

ExtractInit ==
    /\ xpc = "running"
    /\ next_query = 1
    /\ responses = << >>
    /\ extracted = EmptyDict

ExtractIdle ==
    /\ xpc = "idle"
    /\ next_query = 0
    /\ responses = << >>
    /\ extracted = EmptyDict

\* one iteration whose query succeeds
QueryMetric ==
    /\ xpc = "running"
    /\ next_query <= Len(metric_queries)
    /\ \E response \in {r \in Responses : r.kind = "success"} :
          /\ responses' = Append(responses, response)
          /\ extracted' =
               [m \in DOMAIN extracted \cup {metric_queries[next_query]} |->
                  IF m = metric_queries[next_query] THEN QueryRange(response)
                  ELSE extracted[m]]
    /\ next_query' = next_query + 1
    /\ UNCHANGED xpc
    /\ UNCHANGED otherThanExtract

\* one iteration whose query fails
QueryMetricFails ==
    /\ xpc = "running"
    /\ next_query <= Len(metric_queries)
    /\ \E response \in {r \in Responses : r.kind # "success"} :
          /\ responses' = Append(responses, response)
          /\ extracted' =
               [m \in DOMAIN extracted \cup {metric_queries[next_query]} |->
                  IF m = metric_queries[next_query] THEN QueryRange(response)
                  ELSE extracted[m]]
    /\ next_query' = next_query + 1
    /\ UNCHANGED xpc
    /\ UNCHANGED otherThanExtract

\* the loop is over: historical_data is returned
ExtractReturn ==
    /\ xpc = "running"
    /\ next_query > Len(metric_queries)
    /\ xpc' = "done"
    /\ UNCHANGED <<next_query, responses, extracted>>
    /\ UNCHANGED otherThanExtract

\* C8: extract_historical_data returns an entry for every configured metric;
\* a metric whose query failed has an empty series, the queries after it were
\* still executed, and a metric whose query succeeded has its parsed rows.
C8_EntryForEveryMetric ==
    xpc = "done" =>
        /\ DOMAIN extracted = {metric_queries[k] : k \in 1..Len(metric_queries)}
        /\ Len(responses) = Len(metric_queries)
        /\ \A k \in 1..Len(metric_queries) :
              /\ responses[k].kind # "success"
                    => extracted[metric_queries[k]].rows = << >>
              /\ responses[k].kind = "success"
                    => Len(extracted[metric_queries[k]].rows) = Len(responses[k].values)

\* a finished extraction where a query failed and a later one delivered rows
C8_Witness ==
    /\ xpc = "done"
    /\ \E i, j \in 1..Len(metric_queries) :
          /\ i < j
          /\ responses[i].kind # "success"
          /\ responses[j].kind = "success"
          /\ extracted[metric_queries[i]] = EmptyFrame
          /\ extracted[metric_queries[j]].rows # << >>

(***************************************************************************)
(* DataPipeline (data_pipeline.py).  start_pipeline and stop_pipeline are  *)
(* called from request threads; every start that passes the flag test      *)
(* creates a thread running _pipeline_worker.  The test of the flag and    *)
(* its assignment are separate steps of the calling thread, and nothing    *)
(* is locked.                                                              *)
(***************************************************************************)
\* threads that may call start_pipeline / stop_pipeline
Callers == {"request-1", "request-2"}

\* how many worker threads the calls may create in total
MaxThreads == 3

Threads == 1..MaxThreads

\* how many results the workers may store in total
MaxStores == 2

\* how many results a worker that runs alone may store
MaxSoleStores == 52

\* processed_data_queue keeps the last QueueLimit entries
QueueLimit == 50

\* positions of a worker inside the body of its while loop
InCycle == {"cycle", "predict"}

Unborn == {w \in Threads : wpc[w] = "unborn"}

\* the stores that are still followed: MaxStores in total when the calls
\* may create several workers, MaxSoleStores for a worker that runs alone
StoreBound == IF Cardinality(DOMAIN wpc) > 1 THEN MaxStores ELSE MaxSoleStores

\* fault model of _store_processed_data: the slice keeps the first entries
StoreProcessedDataKeepsFirst(queue, data) ==
    LET q == Append(queue, data)
    IN  IF Len(q) > QueueLimit THEN SubSeq(q, 1, QueueLimit) ELSE q

\* _store_processed_data
StoreProcessedData(queue, data) ==
    LET q == Append(queue, data)
    IN  IF Len(q) > QueueLimit THEN SubSeq(q, Len(q) - QueueLimit + 1, Len(q)) ELSE q

PipelineInit ==
    /\ pipeline_running = FALSE
    /\ pipeline_thread = 0
    /\ processed_data_queue = << >>
    /\ wpc = [w \in Threads |-> "unborn"]
    /\ cpc = [c \in Callers |-> "idle"]
    /\ join_target = [c \in Callers |-> 0]
    /\ stored = 0

\* after one start_pipeline call on a new DataPipeline: the flag is set and
\* thread 1 runs _pipeline_worker; no other call is made
SoleWorkerInit ==
    /\ pipeline_running = TRUE
    /\ pipeline_thread = 1
    /\ processed_data_queue = << >>
    /\ wpc = [w \in {1} |-> "test"]
    /\ cpc = << >>
    /\ join_target = << >>
    /\ stored = 0

PipelineIdle ==
    /\ pipeline_running = FALSE
    /\ pipeline_thread = 0
    /\ processed_data_queue = << >>
    /\ wpc = << >>
    /\ cpc = << >>
    /\ join_target = << >>
    /\ stored = 0

\* start_pipeline, first step: `if not self.pipeline_running`
StartPipelineTest ==
    /\ \E c \in DOMAIN cpc :
          /\ cpc[c] = "idle"
          /\ Cardinality(Unborn) > Cardinality({d \in Callers : cpc[d] = "starting"})
          /\ cpc' = [cpc EXCEPT ![c] = IF pipeline_running THEN "idle" ELSE "starting"]
    /\ UNCHANGED <<pipeline_running, pipeline_thread, processed_data_queue, wpc, join_target, stored>>
    /\ UNCHANGED otherThanPipeline

\* start_pipeline, the body of the if: set the flag, create and start the
\* thread
StartPipelineSpawn ==
    /\ \E c \in DOMAIN cpc :
          /\ cpc[c] = "starting"
          /\ LET w == CHOOSE u \in Unborn : \A o \in Unborn : u <= o
             IN  /\ pipeline_running' = TRUE
                 /\ pipeline_thread' = w
                 /\ wpc' = [wpc EXCEPT ![w] = "test"]
          /\ cpc' = [cpc EXCEPT ![c] = "idle"]
    /\ UNCHANGED <<processed_data_queue, join_target, stored>>
    /\ UNCHANGED otherThanPipeline

\* stop_pipeline up to the join: clear the flag, then wait for the thread
\* of the latest start, if any
StopPipeline ==
    /\ \E c \in DOMAIN cpc :
          /\ cpc[c] = "idle"
          /\ pipeline_running' = FALSE
          /\ cpc' = [cpc EXCEPT ![c] = IF pipeline_thread # 0 THEN "joining" ELSE "idle"]
          /\ join_target' = [join_target EXCEPT ![c] = pipeline_thread]
    /\ UNCHANGED <<pipeline_thread, processed_data_queue, wpc, stored>>
    /\ UNCHANGED otherThanPipeline

\* join(timeout=5) returns: the thread has ended, or five seconds have passed
\* while it is still inside a cycle or in the sleep of 120 or 60 seconds that
\* ends one (a thread about to test the flag ends before the timeout)
JoinReturns ==
    /\ \E c \in DOMAIN cpc :
          /\ cpc[c] = "joining"
          /\ wpc[join_target[c]] # "test"
          /\ cpc' = [cpc EXCEPT ![c] = "idle"]
          /\ join_target' = [join_target EXCEPT ![c] = 0]
    /\ UNCHANGED <<pipeline_running, pipeline_thread, processed_data_queue, wpc, stored>>
    /\ UNCHANGED otherThanPipeline

\* _pipeline_worker: `while self.pipeline_running`
WorkerTest ==
    /\ \E w \in DOMAIN wpc :
          /\ wpc[w] = "test"
          /\ wpc' = [wpc EXCEPT ![w] = IF pipeline_running THEN "cycle" ELSE "exited"]
    /\ UNCHANGED <<pipeline_running, pipeline_thread, processed_data_queue, cpc, join_target, stored>>
    /\ UNCHANGED otherThanPipeline

\* steps 1 to 3 of a cycle (update, push, read the status), then
\* _should_run_prediction, which depends on the minute of the clock
WorkerCycle ==
    /\ \E w \in DOMAIN wpc :
          /\ wpc[w] = "cycle"
          /\ \E due \in BOOLEAN :
                /\ due => stored < StoreBound
                /\ wpc' = [wpc EXCEPT ![w] = IF due THEN "predict" ELSE "sleep"]
    /\ UNCHANGED <<pipeline_running, pipeline_thread, processed_data_queue, cpc, join_target, stored>>
    /\ UNCHANGED otherThanPipeline

\* steps 4 and 5: predict and store the result, then sleep(120)
WorkerPredict ==
    /\ \E w \in DOMAIN wpc :
          /\ wpc[w] = "predict"
          /\ processed_data_queue' =
               StoreProcessedData(processed_data_queue,
                                  [entry |-> stored + 1, worker |-> w,
                                   pipeline_status |-> "success"])
          /\ stored' = stored + 1
          /\ wpc' = [wpc EXCEPT ![w] = "sleep"]
    /\ UNCHANGED <<pipeline_running, pipeline_thread, cpc, join_target>>
    /\ UNCHANGED otherThanPipeline

\* a step of the cycle raises: the except clause prints and sleeps 60 s
WorkerFails ==
    /\ \E w \in DOMAIN wpc :
          /\ wpc[w] \in InCycle
          /\ wpc' = [wpc EXCEPT ![w] = "retry"]
    /\ UNCHANGED <<pipeline_running, pipeline_thread, processed_data_queue, cpc, join_target, stored>>
    /\ UNCHANGED otherThanPipeline

\* the sleep at the end of the loop body is over
WorkerWakes ==
    /\ \E w \in DOMAIN wpc :
          /\ wpc[w] \in {"sleep", "retry"}
          /\ wpc' = [wpc EXCEPT ![w] = "test"]
    /\ UNCHANGED <<pipeline_running, pipeline_thread, processed_data_queue, cpc, join_target, stored>>
    /\ UNCHANGED otherThanPipeline

\* C9 (as claimed): whatever start_pipeline and stop_pipeline calls were
\* made, at most one _pipeline_worker loop is inside a pipeline cycle.
C9_AtMostOneWorkerInCycle ==
    Cardinality({w \in DOMAIN wpc : wpc[w] \in InCycle}) <= 1

\* the entries a queue holds, by their number in the order of the stores
EntryNumbers(queue) == [i \in 1..Len(queue) |-> queue[i].entry]

\* the last `keep` of the numbers 1..total, in increasing order
LatestStored(total, keep) ==
    LET n == IF total < keep THEN total ELSE keep
    IN  [i \in 1..n |-> total - n + i]

\* C30: after any sequence of _store_processed_data calls made by a single
\* worker, processed_data_queue holds at most 50 entries, and they are the
\* most recently stored entries in the order in which they were stored (so
\* get_pipeline_status reports the latest store as latest_result).
C30_QueueHoldsLatestFifty ==
    /\ Len(processed_data_queue) <= QueueLimit
    /\ EntryNumbers(processed_data_queue) = LatestStored(stored, QueueLimit)

\* the 51st and later stores have happened: the oldest entries are gone and
\* the queue starts at the entry stored QueueLimit - 1 stores before the last
C30_Witness ==
    /\ stored > QueueLimit + 1
    /\ Len(processed_data_queue) = QueueLimit
    /\ processed_data_queue[1].entry = stored - QueueLimit + 1
    /\ processed_data_queue[QueueLimit].entry = stored

\* C14 (as claimed): whenever an entity's current success rate is below its
\* critical or its warning bound, a pass that runs to its end returns a
\* threshold-violation alert for that entity and metric, whether or not a
\* short-term series exists for the metric.
C14_AlertForEveryViolation ==
    (apc = "done" /\ alert_error = "none") =>
        \A fip \in Fips : \A k \in 1..Len(RateMetrics) :
            current_metrics[fip][RateMetrics[k]] < thresholds[RateMetrics[k]].warning
                => \E a \in Returned :
                      /\ a.fip_name = fip
                      /\ a.alert_type = ViolationType(RateMetrics[k])

\* C17 (as claimed): for an entity whose consent success rate is 20 (critical
\* threshold 70), flat for the last two hours of a short-term series whose
\* trend is -15, and whose other metric is healthy, a pass that runs to its
\* end returns exactly one alert for the entity: critical, of type
\* threshold_violation, with current_rate 20.
C17_OneCriticalThresholdViolation ==
    (apc = "done" /\ alert_error = "none") =>
        \A fip \in Fips :
            (/\ current_metrics[fip].consent_success_rate = 20
             /\ current_metrics[fip].data_fetch_success_rate = 95
             /\ historical_data.consent_success_rate.window[fip] = <<30, 20, 20>>
             /\ CalculateTrend(<<30, 20, 20>>).num = (-15) * CalculateTrend(<<30, 20, 20>>).den)
                => LET mine == {a \in Returned : a.fip_name = fip}
                   IN  /\ Cardinality(mine) = 1
                       /\ \A a \in mine :
                             /\ a.severity = "critical"
                             /\ a.alert_type = "threshold_violation"
                             /\ a.current_rate = 20

\* the floats of the statistical and stability sections of one feature set
FeatureFloats(features) ==
    UNION {{features.statistical_features[m].mean,
            features.statistical_features[m].std,
            features.statistical_features[m].coefficient_of_variation} :
               m \in DOMAIN features.statistical_features}
    \cup {features.stability_features[k].average_coefficient_of_variation :
               k \in DOMAIN features.stability_features}

\* C15 (as claimed): every float of every feature set returned by
\* calculate_features is a finite number, never NaN or Infinity.
C15_FeatureFloatsFinite ==
    (bpc = "done" /\ batch_op = "calculate_features") =>
        \A fip \in DOMAIN batch_results :
            batch_results[fip] # EmptyDict =>
                \A x \in FeatureFloats(batch_results[fip]) : x.kind = "num"

(***************************************************************************)
(* PrometheusHistoricalAnalyzer._calculate_trend_features, for one metric. *)
(* np.polyfit solves the least-squares problem in binary floating point    *)
(* by an orthogonal factorisation (LAPACK gelsd).  The slope it returns is *)
(* the exact least-squares slope up to a rounding residue: the sign is the *)
(* exact one when the exact slope is not 0; when the exact slope is 0 the  *)
(* returned float is the residue itself, which is 0.0 for an all-zero      *)
(* series and otherwise a negative, zero or positive number of the order   *)
(* of 1e-16, depending on the values and on the library build.             *)
(***************************************************************************)
\* a missing sample of df['value']
MissingSample == [kind |-> "nan", v |-> 0]

MaxPoints == 4

TrendSamples == {MissingSample, Sample(0), Sample(50), Sample(90)}

TrendInputs == UNION {[1..n -> TrendSamples] : n \in 0..MaxPoints}

\* df['value'].dropna()
DropNa(series) == SelectSeq(series, LAMBDA x : x.kind # "nan")

\* the exact least-squares slope of values against x = 0..n-1, as the
\* fraction num / den
ExactSlope(values) ==
    LET n == Len(values)
        sx == (n * (n - 1)) \div 2
        sxx == ((n - 1) * n * (2 * n - 1)) \div 6
    IN  [num |-> n * IndexedSum(values, 1) - sx * SeqSum(values),
         den |-> n * sxx - sx * sx]

\* the signs the rounding residue of np.polyfit can take
PolyfitResidues(values) ==
    IF ExactSlope(values).num # 0 \/ \A k \in 1..Len(values) : values[k] = 0
    THEN {0}
    ELSE {-1, 0, 1}

\* sign of the float np.polyfit returned: slope > 0, slope < 0, neither
SlopeSign(slope) ==
    IF slope.num > 0 THEN 1 ELSE IF slope.num < 0 THEN -1 ELSE slope.residue

\* 'increasing' if slope > 0 else 'decreasing' if slope < 0 else 'stable'
SlopeDirection(slope) ==
    IF SlopeSign(slope) > 0 THEN "increasing"
    ELSE IF SlopeSign(slope) < 0 THEN "decreasing" ELSE "stable"

TrendInit ==
    /\ tpc = "input"
    /\ trend_values \in TrendInputs
    /\ trend_features = EmptyDict

TrendIdle ==
    /\ tpc = "idle"
    /\ trend_values = << >>
    /\ trend_features = EmptyDict

\* the body of the loop for a metric with more than one non-missing value
CalculateTrendFeatures ==
    /\ tpc = "input"
    /\ Len(DropNa(trend_values)) > 1
    /\ \E r \in PolyfitResidues(SampleValues(DropNa(trend_values))) :
          LET exact == ExactSlope(SampleValues(DropNa(trend_values)))
              slope == [num |-> exact.num, den |-> exact.den, residue |-> r]
          IN  trend_features' =
                [linear_slope |-> slope,
                 trend_direction |-> SlopeDirection(slope)]
    /\ tpc' = "done"
    /\ UNCHANGED trend_values
    /\ UNCHANGED otherThanTrend

\* with at most one non-missing value the metric gets no entry
CalculateTrendFeaturesSkips ==
    /\ tpc = "input"
    /\ Len(DropNa(trend_values)) <= 1
    /\ tpc' = "done"
    /\ UNCHANGED <<trend_values, trend_features>>
    /\ UNCHANGED otherThanTrend

\* the non-missing values never fall / never rise
IsMonotonic(values) ==
    \/ \A k \in 1..(Len(values) - 1) : values[k] <= values[k + 1]
    \/ \A k \in 1..(Len(values) - 1) : values[k] >= values[k + 1]

SignOf(x) == IF x > 0 THEN 1 ELSE IF x < 0 THEN -1 ELSE 0

\* C20 (as claimed): for every monotonic series with at least 2 non-missing
\* points the slope _calculate_trend_features returns has the sign of
\* (last value - first value): positive, negative, or zero for a constant
\* series.
C20_SlopeSignMatches ==
    LET values == SampleValues(DropNa(trend_values))
    IN  (tpc = "done" /\ Len(values) >= 2 /\ IsMonotonic(values)) =>
            /\ trend_features # EmptyDict
            /\ SlopeSign(trend_features.linear_slope) =
                  SignOf(values[Len(values)] - values[1])

(***************************************************************************)
(* PrometheusHistoricalAnalyzer._calculate_anomaly_features, for one       *)
(* metric.  A z-score threshold is held in tenths.  With n values of sum S *)
(* and sum of squares Q, mean = S/n and std^2 = (n*Q - S*S) / (n*(n-1)),   *)
(* so |x - mean| / std > t/10 is                                           *)
(*     100 * (n-1) * (n*x - S)^2 > t^2 * n * (n*Q - S*S);                  *)
(* for a constant series the z-score is 0/0 = NaN, which compares false.   *)
(***************************************************************************)
MaxSamples == 9

AnomalySamples == {MissingSample, Sample(50), Sample(90)}

AnomalyInputs == UNION {[1..n -> AnomalySamples] : n \in 0..MaxSamples}

\* anomaly_threshold = 2.5
anomaly_threshold == 25

\* fault model: the comparison with the threshold is reversed
IsAnomalyBelow(values, k, threshold) ==
    LET n == Len(values)
        s == SeqSum(values)
        spread == n * SquareSum(values) - s * s
    IN  /\ spread > 0
        /\ 100 * (n - 1) * (n * values[k] - s) * (n * values[k] - s)
              < threshold * threshold * n * spread

\* z_scores > anomaly_threshold, for the k-th value
IsAnomaly(values, k, threshold) ==
    LET n == Len(values)
        s == SeqSum(values)
        spread == n * SquareSum(values) - s * s
    IN  /\ spread > 0
        /\ 100 * (n - 1) * (n * values[k] - s) * (n * values[k] - s)
              > threshold * threshold * n * spread

\* anomalies.sum()
AnomalyCount(values, threshold) ==
    Cardinality({k \in 1..Len(values) : IsAnomaly(values, k, threshold)})

\* anomalies.mean(), as the fraction num / den
AnomalyRate(values, threshold) ==
    [num |-> AnomalyCount(values, threshold), den |-> Len(values)]

\* the smallest number of values for which the features are computed
MinAnomalyLen == 6

AnomalyInit ==
    /\ zpc = "input"
    /\ anomaly_values \in AnomalyInputs
    /\ anomaly_features = EmptyDict

AnomalyIdle ==
    /\ zpc = "idle"
    /\ anomaly_values = << >>
    /\ anomaly_features = EmptyDict

\* the body of the loop for a metric with more than 5 non-missing values
CalculateAnomalyFeatures ==
    /\ zpc = "input"
    /\ Len(DropNa(anomaly_values)) >= MinAnomalyLen
    /\ LET values == SampleValues(DropNa(anomaly_values))
       IN  anomaly_features' =
             [total_anomalies |-> AnomalyCount(values, anomaly_threshold),
              anomaly_rate |-> AnomalyRate(values, anomaly_threshold)]
    /\ zpc' = "done"
    /\ UNCHANGED anomaly_values
    /\ UNCHANGED otherThanAnomaly

\* with at most 5 non-missing values the metric gets no entry
CalculateAnomalyFeaturesSkips ==
    /\ zpc = "input"
    /\ Len(DropNa(anomaly_values)) < MinAnomalyLen
    /\ zpc' = "done"
    /\ UNCHANGED <<anomaly_values, anomaly_features>>
    /\ UNCHANGED otherThanAnomaly

\* z-score thresholds, in tenths, the rate of one series is compared under
ZThresholds == {10, 20, anomaly_threshold, 30}

\* C21: the anomaly rate the calculator returns lies in [0,1], and for the
\* same series a lower z-score threshold never gives a lower anomaly rate
\* than a higher threshold.
C21_AnomalyRateBoundedMonotone ==
    (zpc = "done" /\ anomaly_features # EmptyDict) =>
        LET values == SampleValues(DropNa(anomaly_values))
            rate == anomaly_features.anomaly_rate
        IN  /\ rate.den > 0
            /\ 0 <= rate.num /\ rate.num <= rate.den
            /\ rate = AnomalyRate(values, anomaly_threshold)
            /\ \A lo, hi \in ZThresholds :
                  lo <= hi =>
                     AnomalyRate(values, lo).num * AnomalyRate(values, hi).den
                        >= AnomalyRate(values, hi).num * AnomalyRate(values, lo).den

\* a series with an anomaly at 2.5 that is no anomaly at the higher
\* threshold 3.0
C21_Witness ==
    /\ zpc = "done"
    /\ anomaly_features # EmptyDict
    /\ anomaly_features.anomaly_rate.num > 0
    /\ anomaly_features.anomaly_rate.num < anomaly_features.anomaly_rate.den
    /\ AnomalyCount(SampleValues(DropNa(anomaly_values)), 30)
          < anomaly_features.total_anomalies

\* the alert types of the two definitions of _check_pattern_anomalies
DivergenceTypes == {"metric_divergence", "pattern_anomaly"}

\* |consent_success_rate - data_fetch_success_rate| of an entity
RateGap(metrics) ==
    LET c == Get(metrics, "consent_success_rate")
        f == Get(metrics, "data_fetch_success_rate")
    IN  IF c >= f THEN c - f ELSE f - c

\* C25 (as claimed): a pass that evaluated every entity returns a
\* pattern-divergence alert for an entity exactly when its current consent
\* and data-fetch success rates differ by more than 20 points.
C25_DivergenceAlertIffGap ==
    (apc = "done" /\ alert_error = "none") =>
        \A fip \in Fips :
            (RateGap(current_metrics[fip]) > 20)
                <=> \E a \in Returned :
                       a.fip_name = fip /\ a.alert_type \in DivergenceTypes

\* the least-squares slope of the samples of the last window_minutes
\* minutes (5-minute samples), as a fraction; 0 with fewer than 2 samples
WindowSlope(series, window_minutes) ==
    LET n == Len(series)
        w == window_minutes \div 5
        recent == SubSeq(series, IF n > w THEN n - w + 1 ELSE 1, n)
    IN  IF Len(recent) < 2 THEN Zero
        ELSE [nan |-> FALSE, num |-> ExactSlope(recent).num,
              den |-> ExactSlope(recent).den]

\* the trends over the 30-minute, 1-hour and 3-hour windows are all
\* negative and the shorter the window the steeper the fall
IsAcceleratingDecline(series) ==
    LET t1 == WindowSlope(series, 30)
        t2 == WindowSlope(series, 60)
        t3 == WindowSlope(series, 180)
    IN  /\ FracBelow(t1, 0) /\ FracBelow(t2, 0) /\ FracBelow(t3, 0)
        /\ FracLess(t1, t2) /\ FracLess(t2, t3)

\* C26 (as claimed): a pass that evaluated every entity returns an
\* accelerating-decline alert for an entity exactly when the short-term
\* series of one of its success-rate metrics has trends over the 30-minute,
\* 1-hour and 3-hour windows that are all negative and strictly
\* accelerating.
C26_AcceleratingDeclineAlertIff ==
    (apc = "done" /\ alert_error = "none") =>
        \A fip \in Fips :
            LET short_term == GetTimeSlicedData(historical_data, fip)
            IN  (\E k \in 1..Len(RateMetrics) :
                    /\ RateMetrics[k] \in DOMAIN short_term
                    /\ IsAcceleratingDecline(short_term[RateMetrics[k]]))
                <=> \E a \in Returned :
                       a.fip_name = fip /\ a.alert_type = "accelerating_decline"

\* 'HIGH' if overall_risk_score > 0.6 else 'MEDIUM' if > 0.3 else 'LOW', for
\* the overall_risk_score of a forecast
LevelOfForecast(forecast) ==
    LET r == forecast.overall_risk_score
    IN  IF 10 * r.num > 6 * r.den THEN "HIGH"
        ELSE IF 10 * r.num > 3 * r.den THEN "MEDIUM"
        ELSE "LOW"

\* C27 (as claimed): the result run_comprehensive_analysis returns for an
\* entity reports the values of that pass: summary.current_health_score is
\* the last health score calculate_health_score produced, predictions_24h is
\* the forecast predict_next_24h_risks produced (at some time of the call)
\* and summary.risk_level is the level of its overall_risk_score.
C27_ResultReportsComputedValues ==
    (bpc = "done" /\ batch_op = "monitor_all_fips") =>
        \A fip \in DOMAIN batch_results :
            ~AnalysisRaises(batch_data[fip]) =>
                LET df_with_health == calculate_health_score(batch_data[fip])
                    p == detect_patterns(df_with_health.rows)
                    result == batch_results[fip]
                IN  /\ result.summary.current_health_score =
                          df_with_health.rows[Len(df_with_health.rows)].health_score
                    /\ \E t \in NowTimes :
                          /\ result.predictions_24h = predict_next_24h_risks(p, t)
                          /\ result.summary.risk_level =
                                LevelOfForecast(predict_next_24h_risks(p, t))

\* stop_pipeline has returned (or the pipeline was never started) and no
\* start_pipeline call is under way: the flag is clear and no caller is
\* inside start_pipeline or stop_pipeline
PipelineStopped ==
    /\ pipeline_running = FALSE
    /\ \A c \in DOMAIN cpc : cpc[c] = "idle"

\* C28 (as claimed): once stop_pipeline has returned, and as long as
\* start_pipeline is not called again, no worker performs a further pipeline
\* step: none completes the update/push steps of a cycle, runs a prediction
\* or appends to processed_data_queue.
C28_NoStepAfterStop ==
    [][PipelineStopped =>
          /\ processed_data_queue' = processed_data_queue
          /\ \A w \in DOMAIN wpc : wpc[w] \in InCycle => wpc'[w] = wpc[w]]_vars

(***************************************************************************)
(* The clock of one _pipeline_worker while pipeline_running stays True and *)
(* no step raises.  Time is counted in units of 30 seconds; an hour has    *)
(* 120 units and datetime.utcnow().minute is clock \div 2.                 *)
(***************************************************************************)
UnitsPerHour == 60 * 2

\* time.sleep(120)
SleepUnits == 120 \div 30

\* the time steps 1 to 3 of a cycle take: under 30 seconds, or about 30
StepTimes == {0, 1}

\* 15 minutes
QuarterHour == 15 * 2

\* elapsed is not counted beyond this
MaxElapsed == 40

Later(units, d) == IF units + d > MaxElapsed THEN MaxElapsed ELSE units + d

\* _should_run_prediction at this time: current_minute % 15 == 0
ShouldRunPrediction(time) == ((time \div 2) % 15) = 0

ScheduleInit ==
    /\ kpc = "cycle"
    /\ clock \in 0..(UnitsPerHour - 1)
    /\ elapsed = 0

ScheduleIdle ==
    /\ kpc = "idle"
    /\ clock = 0
    /\ elapsed = 0

\* steps 1 to 3 of a cycle, then the test of _should_run_prediction
TimedCycle ==
    /\ kpc = "cycle"
    /\ \E d \in StepTimes :
          /\ clock' = (clock + d) % UnitsPerHour
          /\ elapsed' = Later(elapsed, d)
          /\ kpc' = IF ShouldRunPrediction((clock + d) % UnitsPerHour)
                    THEN "predict" ELSE "sleep"
    /\ UNCHANGED otherThanSchedule

\* steps 4 and 5: predict_downtime and _store_processed_data
TimedPredict ==
    /\ kpc = "predict"
    /\ elapsed' = 0
    /\ kpc' = "sleep"
    /\ UNCHANGED clock
    /\ UNCHANGED otherThanSchedule

\* time.sleep(120), then the while test, which finds the flag set
TimedSleep ==
    /\ kpc = "sleep"
    /\ clock' = (clock + SleepUnits) % UnitsPerHour
    /\ elapsed' = Later(elapsed, SleepUnits)
    /\ kpc' = "cycle"
    /\ UNCHANGED otherThanSchedule

\* C29 (as claimed): while the pipeline is running and no step fails, the
\* worker stores a prediction at least once in every 15-minute period: the
\* time since the last stored prediction (or since the start) never exceeds
\* 15 minutes.
C29_PredictionEveryQuarterHour == kpc # "idle" => elapsed <= QuarterHour

(***************************************************************************)
(* Specifications, one per component; the other components stay idle.      *)
(***************************************************************************)
InitHealth ==
    HealthInit /\ AlertIdle /\ BatchIdle /\ ExtractIdle /\ PipelineIdle /\ TrendIdle
    /\ AnomalyIdle
    /\ ScheduleIdle

NextHealth == CalculateHealthScore \/ DetectPatterns \/ PredictNext24hRisks

SpecHealth == InitHealth /\ [][NextHealth]_vars

InitAlerts ==
    AlertInit /\ HealthIdle /\ BatchIdle /\ ExtractIdle /\ PipelineIdle /\ TrendIdle
    /\ AnomalyIdle
    /\ ScheduleIdle

NextAlerts == ProcessFip \/ ProcessFipRaises \/ ReturnAlerts

SpecAlerts == InitAlerts /\ [][NextAlerts]_vars

InitBatch ==
    BatchInit /\ HealthIdle /\ AlertIdle /\ ExtractIdle /\ PipelineIdle /\ TrendIdle
    /\ AnomalyIdle
    /\ ScheduleIdle

NextBatch ==
    \/ CalculateFeaturesStep
    \/ CalculateFeaturesCatch
    \/ MonitorStep
    \/ MonitorCatch
    \/ BatchReturn

SpecBatch == InitBatch /\ [][NextBatch]_vars

InitExtract ==
    ExtractInit /\ HealthIdle /\ AlertIdle /\ BatchIdle /\ PipelineIdle /\ TrendIdle
    /\ AnomalyIdle
    /\ ScheduleIdle

NextExtract == QueryMetric \/ QueryMetricFails \/ ExtractReturn

SpecExtract == InitExtract /\ [][NextExtract]_vars

InitPipeline ==
    PipelineInit /\ HealthIdle /\ AlertIdle /\ BatchIdle /\ ExtractIdle /\ TrendIdle
    /\ AnomalyIdle
    /\ ScheduleIdle

NextPipeline ==
    \/ StartPipelineTest
    \/ StartPipelineSpawn
    \/ StopPipeline
    \/ JoinReturns
    \/ WorkerTest
    \/ WorkerCycle
    \/ WorkerPredict
    \/ WorkerFails
    \/ WorkerWakes

SpecPipeline == InitPipeline /\ [][NextPipeline]_vars

InitTrend ==
    TrendInit /\ HealthIdle /\ AlertIdle /\ BatchIdle /\ ExtractIdle /\ PipelineIdle
    /\ AnomalyIdle
    /\ ScheduleIdle

NextTrend == CalculateTrendFeatures \/ CalculateTrendFeaturesSkips

SpecTrend == InitTrend /\ [][NextTrend]_vars

InitAnomaly ==
    AnomalyInit /\ HealthIdle /\ AlertIdle /\ BatchIdle /\ ExtractIdle /\ PipelineIdle
    /\ TrendIdle
    /\ ScheduleIdle

NextAnomaly == CalculateAnomalyFeatures \/ CalculateAnomalyFeaturesSkips

SpecAnomaly == InitAnomaly /\ [][NextAnomaly]_vars

InitStore ==
    SoleWorkerInit /\ HealthIdle /\ AlertIdle /\ BatchIdle /\ ExtractIdle /\ TrendIdle
    /\ AnomalyIdle /\ ScheduleIdle

NextStore == WorkerTest \/ WorkerCycle \/ WorkerPredict \/ WorkerFails \/ WorkerWakes

SpecStore == InitStore /\ [][NextStore]_vars

InitSchedule ==
    ScheduleInit /\ HealthIdle /\ AlertIdle /\ BatchIdle /\ ExtractIdle /\ PipelineIdle
    /\ TrendIdle /\ AnomalyIdle

NextSchedule == TimedCycle \/ TimedPredict \/ TimedSleep

SpecSchedule == InitSchedule /\ [][NextSchedule]_vars

====
